---- MODULE Spec2Model ----
(***************************************************************************)
(* Host controller and in-container init of the workspace CLI.             *)
(*                                                                         *)
(* Controller processes (one per CLI invocation) run concurrently on one   *)
(* host.  An await of the source is a step of the process, so the steps of *)
(* different processes interleave.  Docker, the state file                 *)
(* (~/.workspaces/state/state.json), the proper-lockfile lock on it, the   *)
(* per-workspace state directory and the named volumes are shared.         *)
(*                                                                         *)
(* Consecutive awaits are one step where the result cannot depend on the   *)
(* interleaving: a check of something that never changes back (state.json  *)
(* exists, the BuildKit network, volume and container are up) is taken     *)
(* with the step before it, and the callback of withLock releases the lock *)
(* in the step that saves the state.                                       *)
(*                                                                         *)
(* External commands fail only for a reason the model represents (a name   *)
(* conflict, a port or volume in use, a container that is not running, a   *)
(* readiness timeout, a failing clone or bootstrap script).                *)
(***************************************************************************)
EXTENDS Integers, Sequences, FiniteSets, TLC

\* ---------------------------------------------------------------- bounds
\* Commands launched in one behaviour, over all controller processes.
MaxCmds == 2

\* waitForDocker: the probes of `docker version`, one second apart.
DOCKER_WAIT_TRIES == 30

\* monitorServices: the seconds between two rounds of checks.
MONITOR_PERIOD == 10

\* waitForContainer and waitForDockerd: the timeouts and the sleeps between
\* two probes, in milliseconds.
WAIT_CONTAINER_MS == 15000
WAIT_DOCKERD_MS == 30000
CONTAINER_POLL_MS == 500
DOCKERD_POLL_MS == 1000

\* Ports above SSH_PORT_START that findAvailableSshPort is tried on.
MaxProbe == 6

\* Scripts the project declares in bootstrap.scripts.
MaxScripts == 2

\* A `docker exec` probe takes up to this many half seconds.
MaxProbeTime == 2

\* Lines of authorized_keys before the entrypoint runs, and entrypoint runs.
MaxLines == 3
MaxRuns == 2

\* Characters of a repository URL or pattern, and entries of ssh.repos.
MaxUrl == 2
MaxRepos == 2

\* Entries of `forwards` in a configuration, and characters of a string entry.
MaxForwards == 2
MaxChars == 4

\* ------------------------------------------------------------- constants
SSH_PORT_START == 2300
\* SHARED_IMAGE_MAX_AGE_MS, in builds' durations
SHARED_IMAGE_MAX_AGE == 7

Procs == {"p1", "p2"}
WS    == {"w1", "w2"}
NoProc == "noproc"
Nil    == "nil"
NoKey  == "null"
\* sharedImage.lastBuildAt is <<>> when absent, <<t>> when set
NoTime == <<>>

\* Ports some other program of the host listens on (seen by `ss -tlnH`).
HostListening == {SSH_PORT_START + 1}

VolNames == {"home", "docker", "cache"}

\* The resolved project configuration of each workspace's directory.
ConfigOf(w) ==
  IF w = "w1"
  THEN [dir |-> "dirA", forwards |-> <<>>,     remote |-> FALSE,
        scripts |-> <<"s1">>,         key |-> NoKey]
  ELSE [dir |-> "dirB", forwards |-> <<3000>>, remote |-> TRUE,
        scripts |-> <<"s1", "s2">>,   key |-> "id_work"]

\* assembleRunArgs(resolved, sshKeyInfo, runtime): the names of the
\* environment variables it passes with -e (addEnv drops empty values; no
\* command sets options.extraDockerArgs).  SSH_AUTH_SOCK, which depends on
\* the agent of the host, is left out.
assembleRunArgs(cfg) ==
  {"USER", "WORKSPACE_NAME", "SSH_PUBLIC_KEY", "WORKSPACE_RUNTIME_CONFIG",
   "WORKSPACE_SOURCE_DIR", "HOST_HOME", "WORKSPACE_ASSIGNED_SSH_PORT",
   "WORKSPACE_REPO_BRANCH", "DOCKER_BUILDKIT", "COMPOSE_DOCKER_CLI_BUILD"}
  \cup (IF cfg.remote THEN {"WORKSPACE_REPO_URL"} ELSE {})
  \cup (IF cfg.key # NoKey THEN {"WORKSPACE_SELECTED_SSH_KEY"} ELSE {})

\* syncUserWithHost in the entrypoint: whose ids the workspace user has
\* afterwards.  Without HOST_UID or HOST_GID nothing is changed.
syncUserWithHost(env) ==
  IF {"HOST_UID", "HOST_GID"} \subseteq env THEN "host" ELSE "image"
\* What a command run outside any project directory has instead of a config.
NoConfig == [dir |-> "", forwards |-> <<>>, remote |-> FALSE,
             scripts |-> <<>>, key |-> NoKey]

VARIABLES
  stateFile,   \* state.json: [exists, workspaces |-> [names -> record], lastBuildAt]
  lockHolder,  \* the process holding the lock on state.json, or NoProc
  stateDir,    \* [WS -> [runtime |-> runtime.json, key |-> BOOLEAN]]
  containers,  \* [WS -> [status, port, remote, image, net, execs, env]]; execs are
               \* the processes with a `docker exec` of init in the container,
               \* env the variables `docker run` was given with -e
  volumes,     \* [WS -> SUBSET VolNames]
  marker,      \* [WS -> BOOLEAN]  <home volume>/.workspace-initialized
  image,       \* 0: workspace:latest absent, n > 0: the n-th build
  buildkit,    \* [net, vol: BOOLEAN, ctr: "none" | "running"]
  clock,       \* the time; it advances while an image is built
  pc,          \* [Procs -> label]
  cmd,         \* [Procs -> the command being run, or the last one's name]
  loc,         \* [Procs -> local variables of the command]
  trace,       \* [Procs -> the milestones of the current command, in order]
  outcome,     \* [Procs -> result of the last finished command]
  budget,      \* commands left to launch
  rerun,       \* [WS -> a bootstrap script ran while the marker existed]
  pending,     \* [WS -> the last init aborted in a bootstrap script]
  granted,     \* [WS -> 0 or the port the last ensureWorkspaceState returned]
  call,        \* the arguments of a state-store function called on its own
  ret,         \* what that call returned, NoRet before it
  box,         \* inside one workspace container: the entrypoint (ep, tries,
               \* ready, code), dockerd, sshd, the service monitor (mon, slept)
               \* and the daemons the monitor restarted
  boot,        \* the bootstrap scripts of one init on their own: runtime.json's
               \* scripts, the files (fs), the runner's position and what ran
  wait         \* the readiness waits of one start on their own: step, phase, times

vars == <<stateFile, lockHolder, stateDir, containers, volumes, marker,
          image, buildkit, clock, pc, cmd, loc, trace, outcome,
          budget, rerun, pending, granted, call, ret, box, boot, wait>>

\* The variables of the commands.
hostVars == <<stateFile, lockHolder, stateDir, containers, volumes, marker,
              image, buildkit, clock, pc, cmd, loc, trace, outcome,
              budget, rerun, pending, granted>>

\* ------------------------------------------------------------ state file
EmptyFn == [x \in {} |-> Nil]

DEFAULT_STATE == [workspaces |-> EmptyFn, lastBuildAt |-> NoTime]

NoFile == [exists |-> FALSE, workspaces |-> EmptyFn, lastBuildAt |-> NoTime]

NoRuntime == [sshPort |-> 0, forwards |-> <<>>, configDir |-> "",
              selectedKey |-> NoKey]

NoRuntimeFile == [exists |-> FALSE, port |-> 0, selectedKey |-> NoKey,
                  forwards |-> <<>>, scripts |-> <<>>]

NoContainer == [status |-> "none", port |-> 0, remote |-> FALSE,
                image |-> 0, net |-> FALSE, execs |-> {}, env |-> {}]

\* hasBranchArg: the clone arguments of the configuration name a branch.
\* cloned: the init of this start ran `git clone` with success.
\* built: the image this command built, 0 when it built none.
\* existed: containerAlreadyExists.  wasRunning, alone and retry are history:
\* the container ran when start looked, no other command was at work on the
\* same workspace since this one began, this start began after an aborted
\* bootstrap.
NoLoc == [existed |-> FALSE, wasRunning |-> FALSE, alone |-> TRUE,
          retry |-> FALSE, runtime |-> NoRuntime, op |-> Nil,
          bkret |-> Nil, verify |-> FALSE, scripts |-> <<>>,
          hasBranchArg |-> FALSE, cloned |-> FALSE, built |-> 0]

\* A container at the start of its entrypoint.
\* sync and keys: how syncUserWithHost and addSshKeys ended.
BoxBoot == [ep |-> "sync", tries |-> 0, ready |-> FALSE, code |-> 0,
            dockerd |-> "down", sshd |-> "down", mon |-> "off", slept |-> 0,
            restarted |-> {}, sync |-> "pending", keys |-> "pending"]

\* No function is called on its own, nothing was returned.
\* No bootstrap run is looked at.
NoBoot == [state |-> "off"]

\* No readiness wait is looked at.
NoWait == [step |-> "off"]

NoCall == [fn |-> Nil]
NoRet == [fn |-> Nil]

NoCmd == [name |-> Nil, ws |-> Nil, force |-> FALSE, rebuild |-> FALSE,
          keep |-> FALSE, has |-> FALSE, cfg |-> NoConfig]

\* loadState: a missing file reads as the default state.
loadState(file) ==
  IF file.exists
  THEN [workspaces |-> file.workspaces, lastBuildAt |-> file.lastBuildAt]
  ELSE DEFAULT_STATE

\* saveState: the file holds exactly the given state afterwards.
saveState(st) ==
  [exists |-> TRUE, workspaces |-> st.workspaces, lastBuildAt |-> st.lastBuildAt]

Names(st) == DOMAIN st.workspaces

\* Ports `ss -tlnH` reports: other listeners and the published ports of
\* running workspace containers.
getListeningPorts(ctrs) ==
  HostListening \cup {ctrs[w].port : w \in {x \in WS : ctrs[x].status = "running"}}

RECURSIVE ProbeFrom(_, _, _)
ProbeFrom(candidatePort, allocatedPorts, listeningPorts) ==
  IF candidatePort \notin allocatedPorts /\ candidatePort \notin listeningPorts
  THEN candidatePort
  ELSE ProbeFrom(candidatePort + 1, allocatedPorts, listeningPorts)

\* findAvailableSshPort that takes the first port no record holds, listening
\* or not
findAvailableSshPort_deaf(st, listeningPorts) ==
  ProbeFrom(SSH_PORT_START, {st.workspaces[n].sshPort : n \in Names(st)}, {})

\* findAvailableSshPort without the ports the state file has allocated
findAvailableSshPort_free(st, listeningPorts) ==
  ProbeFrom(SSH_PORT_START, {}, listeningPorts)

findAvailableSshPort(st, listeningPorts) ==
  ProbeFrom(SSH_PORT_START,
            {st.workspaces[n].sshPort : n \in Names(st)},
            listeningPorts)

\* f with key k set to v (k may be new)
Put(f, k, v) == [x \in (DOMAIN f) \cup {k} |-> IF x = k THEN v ELSE f[x]]
\* f without key k
Del(f, k) == [x \in (DOMAIN f) \ {k} |-> f[x]]

\* ensureWorkspaceState that allocates a new record whether or not the
\* workspace has one
ensuredState_fresh(st, name, cfg, listeningPorts) ==
  LET fresh == [sshPort |-> findAvailableSshPort(st, listeningPorts),
                forwards |-> <<>>, configDir |-> cfg.dir, selectedKey |-> NoKey]
      rec   == [fresh EXCEPT !.forwards = cfg.forwards, !.configDir = cfg.dir]
  IN [st EXCEPT !.workspaces = Put(st.workspaces, name, rec)]

\* The state ensureWorkspaceState saves for workspace name and config cfg.
ensuredState(st, name, cfg, listeningPorts) ==
  LET fresh == [sshPort |-> findAvailableSshPort(st, listeningPorts),
                forwards |-> <<>>, configDir |-> cfg.dir, selectedKey |-> NoKey]
      base  == IF name \in Names(st) THEN st.workspaces[name] ELSE fresh
      rec   == [base EXCEPT !.forwards = cfg.forwards, !.configDir = cfg.dir]
  IN [st EXCEPT !.workspaces = Put(st.workspaces, name, rec)]

\* The record loadWorkspaceState returns: state.workspaces?.[name] ?? null
loadWorkspaceState(file, name) ==
  IF file.exists /\ name \in DOMAIN file.workspaces
  THEN [found |-> TRUE, runtime |-> file.workspaces[name]]
  ELSE [found |-> FALSE, runtime |-> NoRuntime]

\* The host at the first command: a fresh one, or one where w1 was started
\* and stopped before (state.json, runtime.json, the image, the shared
\* BuildKit, the stopped container with its volumes and the marker exist).
Init ==
  /\ \E used \in BOOLEAN :
       LET st   == ensuredState(DEFAULT_STATE, "w1", ConfigOf("w1"),
                                getListeningPorts([w \in WS |-> NoContainer]))
           port == st.workspaces["w1"].sshPort
           on(w) == used /\ w = "w1"
       IN /\ stateFile = IF used THEN saveState([st EXCEPT !.lastBuildAt = <<1>>])
                                 ELSE NoFile
          /\ stateDir = [w \in WS |->
               IF on(w)
               THEN [runtime |-> [exists |-> TRUE, port |-> port,
                                  selectedKey |-> ConfigOf(w).key,
                                  forwards |-> ConfigOf(w).forwards,
                                  scripts |-> ConfigOf(w).scripts],
                     key |-> TRUE]
               ELSE [runtime |-> NoRuntimeFile, key |-> FALSE]]
          /\ containers = [w \in WS |->
               IF on(w)
               THEN [status |-> "stopped", port |-> port,
                     remote |-> ConfigOf(w).remote, image |-> 1, net |-> TRUE,
                     execs |-> {}, env |-> assembleRunArgs(ConfigOf(w))]
               ELSE NoContainer]
          /\ volumes = [w \in WS |-> IF on(w) THEN VolNames ELSE {}]
          /\ marker = [w \in WS |-> on(w)]
          /\ image = IF used THEN 1 ELSE 0
          /\ buildkit = IF used THEN [net |-> TRUE, vol |-> TRUE, ctr |-> "running"]
                                ELSE [net |-> FALSE, vol |-> FALSE, ctr |-> "none"]
          /\ clock = IF used THEN 1 ELSE 0
          /\ granted = [w \in WS |-> IF on(w) THEN port ELSE 0]
  /\ lockHolder = NoProc
  /\ pc = [p \in Procs |-> "idle"]
  /\ cmd = [p \in Procs |-> NoCmd]
  /\ loc = [p \in Procs |-> NoLoc]
  /\ trace = [p \in Procs |-> <<>>]
  /\ outcome = [p \in Procs |-> Nil]
  /\ budget = MaxCmds
  /\ rerun = [w \in WS |-> FALSE]
  /\ pending = [w \in WS |-> FALSE]
  /\ call = NoCall
  /\ ret = NoRet
  /\ box = BoxBoot /\ wait = NoWait /\ boot = NoBoot

\* ------------------------------------------------------- process helpers
\* The command ends: its locals are dropped and its result is recorded.
Finish(p, result) ==
  /\ pc' = [pc EXCEPT ![p] = "idle"]
  /\ loc' = [loc EXCEPT ![p] = NoLoc]
  /\ cmd' = [cmd EXCEPT ![p] = [NoCmd EXCEPT !.name = cmd[p].name, !.ws = cmd[p].ws]]
  /\ outcome' = [outcome EXCEPT ![p] = result]
  /\ trace' = [trace EXCEPT ![p] = <<>>]
  /\ UNCHANGED <<call, ret, box, boot, wait>>

\* The command goes on at label with locals l.
Continue(p, label, l) ==
  /\ pc' = [pc EXCEPT ![p] = label]
  /\ loc' = [loc EXCEPT ![p] = l]
  /\ UNCHANGED <<cmd, outcome, trace, call, ret, box, boot, wait>>

\* The same, after the milestone was passed.
ContinueMark(p, label, l, milestone) ==
  /\ pc' = [pc EXCEPT ![p] = label]
  /\ loc' = [loc EXCEPT ![p] = l]
  /\ trace' = [trace EXCEPT ![p] = Append(@, milestone)]
  /\ UNCHANGED <<cmd, outcome, call, ret, box, boot, wait>>

\* ------------------------------------------------------------- docker
Exists(w)  == containers[w].status # "none"
Running(w) == containers[w].status = "running"

\* Host ports bound when a container of workspace w is about to bind its own.
BoundPorts(w) ==
  HostListening \cup
  {containers[x].port : x \in {y \in WS \ {w} : containers[y].status = "running"}}

\* The shared BuildKit network, volume and container are all up.
BuildKitUp == buildkit.net /\ buildkit.vol /\ buildkit.ctr = "running"

\* ------------------------------------------------------------- withLock
\* Enter withLock(fn), fn named by op: ensureDir, pathExists(STATE_FILE).
CallLock(p, op, l) ==
  Continue(p, IF stateFile.exists THEN "wl_lock" ELSE "wl_default",
           [l EXCEPT !.op = op])

\* saveState(DEFAULT_STATE), before the lock is taken
WlDefault(p) ==
  /\ pc[p] = "wl_default"
  /\ stateFile' = saveState(DEFAULT_STATE)
  /\ Continue(p, "wl_lock", loc[p])
  /\ UNCHANGED <<lockHolder, stateDir, containers, volumes, marker,
                 image, buildkit, clock, budget, rerun, pending, granted>>

\* lockfile.lock succeeds
WlLock(p) ==
  /\ pc[p] = "wl_lock"
  /\ lockHolder = NoProc
  /\ lockHolder' = p
  /\ Continue(p, "wl_body", loc[p])
  /\ UNCHANGED <<stateFile, stateDir, containers, volumes, marker,
                 image, buildkit, clock, budget, rerun, pending, granted>>

\* withLock that calls fn although lockfile.lock gave up
WlLockFail_proceed(p) ==
  /\ pc[p] = "wl_lock"
  /\ lockHolder \notin {NoProc, p}
  /\ Continue(p, "wl_body", loc[p])
  /\ UNCHANGED <<stateFile, lockHolder, stateDir, containers, volumes, marker,
                 image, buildkit, clock, budget, rerun, pending, granted>>

\* lockfile.lock gives up after its retries: the command throws
WlLockFail(p) ==
  /\ pc[p] = "wl_lock"
  /\ lockHolder \notin {NoProc, p}
  /\ Finish(p, "fail")
  /\ UNCHANGED <<stateFile, lockHolder, stateDir, containers, volumes, marker,
                 image, buildkit, clock, budget, rerun, pending, granted>>

\* Where ensureSharedBuildKit returns to.  In the full path of start a
\* container that did not exist is created next.
BkReturn(l) ==
  IF l.bkret = "st_afterbk" /\ ~l.existed THEN "st_create" ELSE l.bkret

\* Entry of ensureSharedBuildKit: with everything up its checks change
\* nothing and it returns.
BkEntry(l) == IF BuildKitUp THEN BkReturn(l) ELSE "bk_net"

\* ensureWorkspaceState under the lock: loadState, the record of the
\* workspace, saveState; release.  start goes on with the returned record,
\* status, info and proxy print their summary.
EnsureBody(p) ==
  /\ pc[p] = "wl_body" /\ loc[p].op = "ensure"
  /\ lockHolder = p
  /\ LET w   == cmd[p].ws
         st2 == ensuredState(loadState(stateFile), w, cmd[p].cfg,
                             getListeningPorts(containers))
     IN /\ stateFile' = saveState(st2)
        /\ granted' = [granted EXCEPT ![w] = st2.workspaces[w].sshPort]
        /\ IF cmd[p].name = "start"
           THEN ContinueMark(p, "st_runtime",
                             [loc[p] EXCEPT !.runtime = st2.workspaces[w]], "state")
           ELSE Finish(p, "ok")
  /\ lockHolder' = NoProc
  /\ UNCHANGED <<stateDir, containers, volumes, marker,
                 image, buildkit, clock, budget, rerun, pending>>

\* removeWorkspaceState under the lock: loadState, delete the record and
\* saveState when there is one; release
RemoveBody(p) ==
  /\ pc[p] = "wl_body" /\ loc[p].op = "remove"
  /\ lockHolder = p
  /\ LET w  == cmd[p].ws
         st == loadState(stateFile)
     IN /\ stateFile' = IF w \in Names(st)
                        THEN saveState([st EXCEPT !.workspaces = Del(@, w)])
                        ELSE stateFile
        /\ granted' = [granted EXCEPT ![w] = 0]
  /\ lockHolder' = NoProc
  /\ Continue(p, "ds_rmdir", loc[p])
  /\ UNCHANGED <<stateDir, containers, volumes, marker,
                 image, buildkit, clock, budget, rerun, pending>>

\* recordSharedImageBuild under the lock: loadState, lastBuildAt =
\* Date.now(), saveState; release.  `build` ends, ensureImage returns to
\* start, which enters ensureSharedBuildKit.
RecordBody(p) ==
  /\ pc[p] = "wl_body" /\ loc[p].op = "record"
  /\ lockHolder = p
  /\ stateFile' = saveState([loadState(stateFile) EXCEPT !.lastBuildAt = <<clock>>])
  /\ lockHolder' = NoProc
  /\ IF cmd[p].name = "build"
     THEN Finish(p, "ok")
     ELSE ContinueMark(p, BkEntry([loc[p] EXCEPT !.bkret = "st_afterbk"]),
                       [loc[p] EXCEPT !.bkret = "st_afterbk"], "image")
  /\ UNCHANGED <<stateDir, containers, volumes, marker,
                 image, buildkit, clock, budget, rerun, pending, granted>>

\* getLastSharedImageBuild whose caller asks only whether a build is recorded
GetLastBody_noAge(p) ==
  /\ pc[p] = "wl_body" /\ loc[p].op = "getLast"
  /\ lockHolder = p
  /\ lockHolder' = NoProc
  /\ LET lastBuild == loadState(stateFile).lastBuildAt
     IN IF lastBuild = NoTime
        THEN Continue(p, "img_build", loc[p])
        ELSE ContinueMark(p, BkEntry([loc[p] EXCEPT !.bkret = "st_afterbk"]),
                          [loc[p] EXCEPT !.bkret = "st_afterbk"], "image")
  /\ UNCHANGED <<stateFile, stateDir, containers, volumes, marker,
                 image, buildkit, clock, budget, rerun, pending, granted>>

\* getLastSharedImageBuild under the lock: loadState; release.  ensureImage
\* then builds when no build is recorded or the last one is older than the
\* maximum age, else it returns to start.
GetLastBody(p) ==
  /\ pc[p] = "wl_body" /\ loc[p].op = "getLast"
  /\ lockHolder = p
  /\ lockHolder' = NoProc
  /\ LET lastBuild == loadState(stateFile).lastBuildAt
     IN IF lastBuild = NoTime \/ clock - lastBuild[1] > SHARED_IMAGE_MAX_AGE
        THEN Continue(p, "img_build", loc[p])
        ELSE ContinueMark(p, BkEntry([loc[p] EXCEPT !.bkret = "st_afterbk"]),
                          [loc[p] EXCEPT !.bkret = "st_afterbk"], "image")
  /\ UNCHANGED <<stateFile, stateDir, containers, volumes, marker,
                 image, buildkit, clock, budget, rerun, pending, granted>>

\* ------------------------------------------------------------ commands
StartCmds ==
  {[name |-> "start", ws |-> w, force |-> f, rebuild |-> r, keep |-> FALSE,
    has |-> h, cfg |-> IF h THEN ConfigOf(w) ELSE NoConfig] :
      w \in WS, f \in BOOLEAN, r \in BOOLEAN, h \in BOOLEAN}

DestroyCmds ==
  {[name |-> "destroy", ws |-> w, force |-> TRUE, rebuild |-> FALSE, keep |-> k,
    has |-> FALSE, cfg |-> NoConfig] : w \in WS, k \in BOOLEAN}

StopCmds ==
  {[name |-> "stop", ws |-> w, force |-> FALSE, rebuild |-> FALSE, keep |-> FALSE,
    has |-> FALSE, cfg |-> NoConfig] : w \in WS}

\* status, info and proxy: with the project config in reach, or without
QueryCmds ==
  {[name |-> n, ws |-> w, force |-> FALSE, rebuild |-> FALSE, keep |-> FALSE,
    has |-> h, cfg |-> IF h THEN ConfigOf(w) ELSE NoConfig] :
      n \in {"status", "info", "proxy"}, w \in WS, h \in BOOLEAN}

GlobalCmds ==
  {[NoCmd EXCEPT !.name = n] : n \in {"list", "build"}}

Commands == StartCmds \cup DestroyCmds \cup StopCmds \cup QueryCmds \cup GlobalCmds

Entry(c) ==
  CASE c.name = "start"   -> "st_exists"
    [] c.name = "stop"    -> "sp_check"
    [] c.name = "destroy" -> "ds_exists"
    [] c.name = "status"  -> "q_state"
    [] c.name = "info"    -> "q_state"
    [] c.name = "proxy"   -> "q_state"
    [] c.name = "list"    -> "ls_load"
    [] c.name = "build"   -> "bd_build"

\* Processes at work on workspace w.
Busy(w) == {q \in Procs : pc[q] # "idle" /\ cmd[q].ws = w}

\* A controller process is launched with a command line.  Processes are
\* interchangeable: of two idle ones the first is the one launched.
Begin(p) ==
  /\ pc[p] = "idle"
  /\ budget > 0
  /\ \A q \in Procs : (pc[q] = "idle" /\ q # p) => p = "p1"
  /\ \E c \in Commands :
       /\ cmd' = [cmd EXCEPT ![p] = c]
       /\ pc' = [pc EXCEPT ![p] = Entry(c)]
       /\ loc' = [q \in Procs |->
                    IF q = p
                    THEN [NoLoc EXCEPT !.alone = (c.ws = Nil \/ Busy(c.ws) = {}),
                                       !.retry = (c.ws # Nil /\ pending[c.ws])]
                    ELSE IF c.ws # Nil /\ q \in Busy(c.ws)
                    THEN [loc[q] EXCEPT !.alone = FALSE]
                    ELSE loc[q]]
  /\ budget' = budget - 1
  /\ outcome' = [outcome EXCEPT ![p] = Nil]
  /\ UNCHANGED <<stateFile, lockHolder, stateDir, containers, volumes, marker,
                 image, buildkit, clock, trace, rerun, pending, granted,
                 call, ret, box, boot, wait>>

\* --------------------------------------------------------------- start
\* start that restarts an existing container without asking whether it runs
StExists_restart(p) ==
  /\ pc[p] = "st_exists"
  /\ LET c  == cmd[p]
         l  == [loc[p] EXCEPT !.existed = Exists(c.ws), !.wasRunning = Running(c.ws)]
     IN IF Exists(c.ws) /\ ~c.force /\ ~c.rebuild
        THEN Continue(p, "rs_start", l)
        ELSE IF ~c.has
        THEN Finish(p, "fail")
        ELSE CallLock(p, "ensure", l)
  /\ UNCHANGED <<stateFile, lockHolder, stateDir, containers, volumes, marker,
                 image, buildkit, clock, budget, rerun, pending, granted>>

\* getWorkspaceInfo; containerExists; containerRunning; the choice of path:
\* "already running", the restart of a stopped container, or the full path
\* that needs the project config and begins with ensureWorkspaceState.
StExists(p) ==
  /\ pc[p] = "st_exists"
  /\ LET c  == cmd[p]
         l  == [loc[p] EXCEPT !.existed = Exists(c.ws), !.wasRunning = Running(c.ws)]
     IN IF Exists(c.ws) /\ ~c.force /\ ~c.rebuild
        THEN IF Running(c.ws)
             THEN Finish(p, "already_running")
             ELSE Continue(p, "rs_start", l)
        ELSE IF ~c.has
        THEN Finish(p, "fail")
        ELSE CallLock(p, "ensure", l)
  /\ UNCHANGED <<stateFile, lockHolder, stateDir, containers, volumes, marker,
                 image, buildkit, clock, budget, rerun, pending, granted>>

\* runtime.selectedKey = basename of the selected key; writeRuntimeMetadata;
\* ensureSshKey; ensureImage: imageExists, needsBuild = !imagePresent ||
\* rebuild, else the age of the last build decides
StRuntime(p) ==
  /\ pc[p] = "st_runtime"
  /\ LET c  == cmd[p]
         rt == [loc[p].runtime EXCEPT !.selectedKey = c.cfg.key]
     IN /\ stateDir' = [stateDir EXCEPT ![c.ws] =
             [runtime |-> [exists |-> TRUE, port |-> rt.sshPort,
                           selectedKey |-> rt.selectedKey,
                           forwards |-> rt.forwards, scripts |-> c.cfg.scripts],
              key |-> TRUE]]
        /\ IF image = 0 \/ c.rebuild
           THEN ContinueMark(p, "img_build", [loc[p] EXCEPT !.runtime = rt], "runtime")
           ELSE ContinueMark(p, IF stateFile.exists THEN "wl_lock" ELSE "wl_default",
                             [loc[p] EXCEPT !.runtime = rt, !.op = "getLast"], "runtime")
  /\ UNCHANGED <<stateFile, lockHolder, containers, volumes, marker,
                 image, buildkit, clock, budget, rerun, pending, granted>>

\* buildImage, then recordSharedImageBuild (in ensureImage and in `build`)
ImgBuild(p) ==
  /\ pc[p] \in {"img_build", "bd_build"}
  /\ image' = image + 1
  /\ clock' = clock + 1
  /\ CallLock(p, "record", [loc[p] EXCEPT !.built = image + 1])
  /\ UNCHANGED <<stateFile, lockHolder, stateDir, containers, volumes, marker,
                 buildkit, budget, rerun, pending, granted>>

\* ------------------------------------------------ ensureSharedBuildKit
\* networkExists; with the network: volumeExists, createVolume (docker
\* volume create returns an existing volume as it is), containerExists and
\* containerRunning of buildkitd, which is done when that one runs
BkNet(p) ==
  /\ pc[p] = "bk_net"
  /\ IF ~buildkit.net
     THEN Continue(p, "bk_netcreate", loc[p]) /\ UNCHANGED buildkit
     ELSE /\ buildkit' = [buildkit EXCEPT !.vol = TRUE]
          /\ Continue(p, IF buildkit.ctr = "running" THEN BkReturn(loc[p]) ELSE "bk_run",
                      loc[p])
  /\ UNCHANGED <<stateFile, lockHolder, stateDir, containers, volumes, marker,
                 image, clock, budget, rerun, pending, granted>>

\* createNetwork: docker network create, an existing name is an error;
\* then the volume and the checks of buildkitd as above
BkNetCreate(p) ==
  /\ pc[p] = "bk_netcreate"
  /\ IF buildkit.net
     THEN Finish(p, "fail") /\ UNCHANGED buildkit
     ELSE /\ buildkit' = [buildkit EXCEPT !.net = TRUE, !.vol = TRUE]
          /\ Continue(p, IF buildkit.ctr = "running" THEN BkReturn(loc[p]) ELSE "bk_run",
                      loc[p])
  /\ UNCHANGED <<stateFile, lockHolder, stateDir, containers, volumes, marker,
                 image, clock, budget, rerun, pending, granted>>

\* The steps inside ensureSharedBuildKit.
BkSteps == {"bk_net", "bk_netcreate", "bk_run"}

\* createContainer of buildkitd that leaves the container created, not running
BkRun_detached(p) ==
  /\ pc[p] = "bk_run"
  /\ IF buildkit.ctr # "none"
     THEN Finish(p, "fail") /\ UNCHANGED buildkit
     ELSE /\ buildkit' = [buildkit EXCEPT !.ctr = "created"]
          /\ Continue(p, BkReturn(loc[p]), loc[p])
  /\ UNCHANGED <<stateFile, lockHolder, stateDir, containers, volumes, marker,
                 image, clock, budget, rerun, pending, granted>>

\* createContainer of buildkitd: docker run --name ..., the name must be
\* free still
BkRun(p) ==
  /\ pc[p] = "bk_run"
  /\ IF buildkit.ctr # "none"
     THEN Finish(p, "fail") /\ UNCHANGED buildkit
     ELSE /\ buildkit' = [buildkit EXCEPT !.ctr = "running"]
          /\ Continue(p, BkReturn(loc[p]), loc[p])
  /\ UNCHANGED <<stateFile, lockHolder, stateDir, containers, volumes, marker,
                 image, clock, budget, rerun, pending, granted>>

\* ------------------------------------------ start: the container itself
\* After ensureSharedBuildKit with containerAlreadyExists: remove the
\* container, report "already running", or restart it.
\* `docker rm -f` of a container that is gone meanwhile succeeds or fails,
\* depending on the docker version.
StAfterBk(p) ==
  /\ pc[p] = "st_afterbk"
  /\ LET c == cmd[p]
         w == c.ws
     IN IF c.force
        THEN \/ /\ containers' = [containers EXCEPT ![w] = NoContainer]
                /\ Continue(p, "st_create", loc[p])
             \/ /\ ~Exists(w)
                /\ Finish(p, "fail")
                /\ UNCHANGED containers
        ELSE IF Running(w)
        THEN Finish(p, "already_running_updated") /\ UNCHANGED containers
        ELSE Continue(p, "rb_start", loc[p]) /\ UNCHANGED containers
  /\ UNCHANGED <<stateFile, lockHolder, stateDir, volumes, marker,
                 image, buildkit, clock, budget, rerun, pending, granted>>

\* createContainer(runArgs): docker run --name ... -p <sshPort>:22 -v ... image
\* The name must be free.  The named volumes are created when missing.  When
\* the host port is taken the container stays created and the command fails.
StCreate(p) ==
  /\ pc[p] = "st_create"
  /\ LET c == cmd[p]
         w == c.ws
         port == loc[p].runtime.sshPort
         made(status) == [status |-> status, port |-> port,
                          remote |-> c.cfg.remote, image |-> image, net |-> FALSE,
                          execs |-> {}, env |-> assembleRunArgs(c.cfg)]
     IN IF Exists(w)
        THEN Finish(p, "fail") /\ UNCHANGED <<containers, volumes>>
        ELSE /\ volumes' = [volumes EXCEPT ![w] = VolNames]
             /\ IF port \in BoundPorts(w)
                THEN /\ containers' = [containers EXCEPT ![w] = made("stopped")]
                     /\ Finish(p, "fail")
                ELSE /\ containers' = [containers EXCEPT ![w] = made("running")]
                     /\ ContinueMark(p, "st_connect", loc[p], "run")
  /\ UNCHANGED <<stateFile, lockHolder, stateDir, marker,
                 image, buildkit, clock, budget, rerun, pending, granted>>

\* startContainer: docker start <name>
StartContainer(p) ==
  /\ pc[p] \in {"rs_start", "rb_start"}
  /\ LET w == cmd[p].ws
     IN IF ~Exists(w) \/ (~Running(w) /\ containers[w].port \in BoundPorts(w))
        THEN Finish(p, "fail") /\ UNCHANGED containers
        ELSE /\ containers' = [containers EXCEPT ![w].status = "running"]
             /\ Continue(p, IF pc[p] = "rs_start" THEN "rs_dockerd" ELSE "rb_dockerd",
                         loc[p])
  /\ UNCHANGED <<stateFile, lockHolder, stateDir, volumes, marker,
                 image, buildkit, clock, budget, rerun, pending, granted>>

\* start that configures buildx right after connecting the new container
Connect_early(p) ==
  /\ pc[p] \in {"rs_connect", "rb_connect", "st_connect"}
  /\ LET w == cmd[p].ws
         next == CASE pc[p] = "rs_connect" -> "rs_buildx"
                   [] pc[p] = "rb_connect" -> "rb_buildx"
                   [] pc[p] = "st_connect" -> "st_buildx"
     IN IF Exists(w)
        THEN /\ containers' = [containers EXCEPT ![w].net = TRUE]
             /\ ContinueMark(p, next, loc[p], "connect")
        ELSE Finish(p, "fail") /\ UNCHANGED containers
  /\ UNCHANGED <<stateFile, lockHolder, stateDir, volumes, marker,
                 image, buildkit, clock, budget, rerun, pending, granted>>

\* connectToNetwork; "already exists in network" is tolerated
Connect(p) ==
  /\ pc[p] \in {"rs_connect", "rb_connect", "st_connect"}
  /\ LET w == cmd[p].ws
         next == CASE pc[p] = "rs_connect" -> "rs_buildx"
                   [] pc[p] = "rb_connect" -> "rb_buildx"
                   [] pc[p] = "st_connect" -> "st_dockerd"
     IN IF Exists(w)
        THEN /\ containers' = [containers EXCEPT ![w].net = TRUE]
             /\ ContinueMark(p, next, loc[p], "connect")
        ELSE Finish(p, "fail") /\ UNCHANGED containers
  /\ UNCHANGED <<stateFile, lockHolder, stateDir, volumes, marker,
                 image, buildkit, clock, budget, rerun, pending, granted>>

\* waitForContainer (new container only) and waitForDockerd: docker exec
\* <name> true and docker exec <name> docker info were answered in time
WaitDockerd(p) ==
  /\ pc[p] \in {"rs_dockerd", "rb_dockerd", "st_dockerd"}
  /\ Running(cmd[p].ws)
  /\ CASE pc[p] = "rs_dockerd" ->
            ContinueMark(p, BkEntry([loc[p] EXCEPT !.bkret = "rs_connect"]),
                         [loc[p] EXCEPT !.bkret = "rs_connect"], "ready")
       [] pc[p] = "rb_dockerd" -> ContinueMark(p, "rb_connect", loc[p], "ready")
       [] pc[p] = "st_dockerd" -> ContinueMark(p, "st_buildx", loc[p], "ready")
  /\ UNCHANGED <<stateFile, lockHolder, stateDir, containers, volumes, marker,
                 image, buildkit, clock, budget, rerun, pending, granted>>

\* waitForContainer or waitForDockerd: the 15 s or 30 s passed unanswered
WaitDockerdTimeout(p) ==
  /\ pc[p] \in {"rs_dockerd", "rb_dockerd", "st_dockerd"}
  /\ Finish(p, "fail")
  /\ UNCHANGED <<stateFile, lockHolder, stateDir, containers, volumes, marker,
                 image, buildkit, clock, budget, rerun, pending, granted>>

\* configureBuildxInContainer, then runInitScript: docker exec -u workspace
\* <name> workspace-internal init (options.noInit is never set; the restart
\* without a project config skips init)
Buildx(p) ==
  /\ pc[p] \in {"rs_buildx", "rb_buildx", "st_buildx"}
  /\ LET w == cmd[p].ws
     IN IF ~Running(w)
        THEN Finish(p, "fail") /\ UNCHANGED containers
        ELSE IF pc[p] = "rs_buildx" /\ ~cmd[p].has
        THEN Finish(p, "ok") /\ UNCHANGED containers
        ELSE /\ containers' = [containers EXCEPT ![w].execs = @ \cup {p}]
             /\ \E branchArg \in BOOLEAN :
                  /\ branchArg => (containers[w].remote /\ ~marker[w])
                  /\ ContinueMark(p, "in_clone",
                         [loc[p] EXCEPT !.verify = (pc[p] # "rb_buildx" /\ cmd[p].cfg.remote),
                                        !.hasBranchArg = branchArg],
                         "buildx")
  /\ UNCHANGED <<stateFile, lockHolder, stateDir, volumes, marker,
                 image, buildkit, clock, budget, rerun, pending, granted>>

\* verifyRepositoryClone with a remote: test -d /workspace/source/.git
Verify(p) ==
  /\ pc[p] = "verify"
  /\ \/ Finish(p, "ok")
     \/ Finish(p, "fail")
  /\ UNCHANGED <<stateFile, lockHolder, stateDir, containers, volumes, marker,
                 image, buildkit, clock, budget, rerun, pending, granted>>

\* ------------------------------------- in-container init (runInit)
\* The container was stopped or removed and init died with it: docker exec
\* fails.
InitKilled(p) ==
  /\ pc[p] \in {"in_clone", "in_clone2", "in_boot"}
  /\ p \notin containers[cmd[p].ws].execs
  /\ Finish(p, "fail")
  /\ UNCHANGED <<stateFile, lockHolder, stateDir, containers, volumes, marker,
                 image, buildkit, clock, budget, rerun, pending, granted>>

\* cloneRepository that does not look for the marker
InitClone_noMarker(p) ==
  /\ pc[p] = "in_clone"
  /\ p \in containers[cmd[p].ws].execs
  /\ LET w  == cmd[p].ws
         rt == stateDir[w].runtime
     IN /\ pending' = [pending EXCEPT ![w] = FALSE]
        /\ \/ /\ ContinueMark(p, "in_boot",
                     [loc[p] EXCEPT !.scripts = IF rt.exists THEN rt.scripts ELSE <<>>,
                                    !.cloned = containers[w].remote],
                     "init")
              /\ UNCHANGED containers
           \/ /\ containers[w].remote
              /\ IF loc[p].hasBranchArg
                 THEN /\ containers' = [containers EXCEPT ![w].execs = @ \ {p}]
                      /\ Finish(p, "fail")
                 ELSE /\ Continue(p, "in_clone2", loc[p])
                      /\ UNCHANGED containers
  /\ UNCHANGED <<stateFile, lockHolder, stateDir, volumes, marker,
                 image, buildkit, clock, budget, rerun, granted>>

\* copyGitConfig; loadRuntimeConfig; cloneRepository: skipped without a
\* remote or with the marker; else the first attempt, which is `git clone
\* --branch` unless the clone arguments name a branch: it succeeds, or it
\* fails and the attempt without the branch flag is next, or it was that
\* attempt already and cloneRepository throws.
InitClone(p) ==
  /\ pc[p] = "in_clone"
  /\ p \in containers[cmd[p].ws].execs
  /\ LET w  == cmd[p].ws
         rt == stateDir[w].runtime
     IN /\ pending' = [pending EXCEPT ![w] = FALSE]
        /\ \/ /\ ContinueMark(p, "in_boot",
                     [loc[p] EXCEPT !.scripts = IF rt.exists THEN rt.scripts ELSE <<>>,
                                    !.cloned = containers[w].remote /\ ~marker[w]],
                     "init")
              /\ UNCHANGED containers
           \/ /\ containers[w].remote /\ ~marker[w]
              /\ IF loc[p].hasBranchArg
                 THEN /\ containers' = [containers EXCEPT ![w].execs = @ \ {p}]
                      /\ Finish(p, "fail")
                 ELSE /\ Continue(p, "in_clone2", loc[p])
                      /\ UNCHANGED containers
  /\ UNCHANGED <<stateFile, lockHolder, stateDir, volumes, marker,
                 image, buildkit, clock, budget, rerun, granted>>

\* cloneRepository that removes the container when the clone failed
InitCloneRetry_cleanup(p) ==
  /\ pc[p] = "in_clone2"
  /\ p \in containers[cmd[p].ws].execs
  /\ LET w  == cmd[p].ws
         rt == stateDir[w].runtime
     IN \/ /\ ContinueMark(p, "in_boot",
                  [loc[p] EXCEPT !.scripts = IF rt.exists THEN rt.scripts ELSE <<>>,
                                 !.cloned = TRUE],
                  "init")
           /\ UNCHANGED containers
        \/ /\ containers' = [containers EXCEPT ![w] = NoContainer]
           /\ Finish(p, "fail")
  /\ UNCHANGED <<stateFile, lockHolder, stateDir, volumes, marker,
                 image, buildkit, clock, budget, rerun, pending, granted>>

\* The second attempt, `git clone` without the branch flag: it succeeds, or
\* cloneRepository throws, init exits and docker exec fails.
InitCloneRetry(p) ==
  /\ pc[p] = "in_clone2"
  /\ p \in containers[cmd[p].ws].execs
  /\ LET w  == cmd[p].ws
         rt == stateDir[w].runtime
     IN \/ /\ ContinueMark(p, "in_boot",
                  [loc[p] EXCEPT !.scripts = IF rt.exists THEN rt.scripts ELSE <<>>,
                                 !.cloned = TRUE],
                  "init")
           /\ UNCHANGED containers
        \/ /\ containers' = [containers EXCEPT ![w].execs = @ \ {p}]
           /\ Finish(p, "fail")
  /\ UNCHANGED <<stateFile, lockHolder, stateDir, volumes, marker,
                 image, buildkit, clock, budget, rerun, pending, granted>>

\* runInit that writes the marker before it runs the bootstrap scripts
InitBootstrap_markerFirst(p) ==
  /\ pc[p] = "in_boot"
  /\ p \in containers[cmd[p].ws].execs
  /\ LET w == cmd[p].ws
         n == Len(loc[p].scripts)
     IN /\ containers' = [containers EXCEPT ![w].execs = @ \ {p}]
        /\ \E ran \in 0..n, failedRun \in BOOLEAN :
             /\ ran = n => ~failedRun
             /\ rerun' = [rerun EXCEPT ![w] = @ \/ (marker[w] /\ (ran > 0 \/ failedRun))]
             /\ marker' = [marker EXCEPT ![w] = TRUE]
             /\ IF ran = n
                THEN /\ UNCHANGED pending
                     /\ IF loc[p].verify
                        THEN Continue(p, "verify", loc[p])
                        ELSE Finish(p, "ok")
                ELSE /\ pending' = [pending EXCEPT ![w] = TRUE]
                     /\ Finish(p, "fail")
  /\ UNCHANGED <<stateFile, lockHolder, stateDir, volumes,
                 image, buildkit, clock, budget, granted>>

\* configureShellHelpers, installLazyVim, installDevTools (none of them
\* throws), then runBootstrapScripts with the entries in order: the first
\* ran entries exit with 0 and, unless ran is all of them, the next one
\* exits with another code (failedRun) or is missing or not executable.
\* After the last entry fs.writeFile(markerPath, "") and init returns to
\* the host, which verifies the clone of a remote after a first start.
InitBootstrap(p) ==
  /\ pc[p] = "in_boot"
  /\ p \in containers[cmd[p].ws].execs
  /\ LET w == cmd[p].ws
         n == Len(loc[p].scripts)
     IN /\ containers' = [containers EXCEPT ![w].execs = @ \ {p}]
        /\ \E ran \in 0..n, failedRun \in BOOLEAN :
             /\ ran = n => ~failedRun
             /\ rerun' = [rerun EXCEPT ![w] = @ \/ (marker[w] /\ (ran > 0 \/ failedRun))]
             /\ IF ran = n
                THEN /\ marker' = [marker EXCEPT ![w] = TRUE]
                     /\ UNCHANGED pending
                     /\ IF loc[p].verify
                        THEN Continue(p, "verify", loc[p])
                        ELSE Finish(p, "ok")
                ELSE /\ pending' = [pending EXCEPT ![w] = TRUE]
                     /\ Finish(p, "fail")
                     /\ UNCHANGED marker
  /\ UNCHANGED <<stateFile, lockHolder, stateDir, volumes,
                 image, buildkit, clock, budget, granted>>

\* ---------------------------------------------------------------- stop
\* containerExists; containerRunning
SpCheck(p) ==
  /\ pc[p] = "sp_check"
  /\ IF Running(cmd[p].ws)
     THEN Continue(p, "sp_stop", loc[p])
     ELSE Finish(p, "noop")
  /\ UNCHANGED <<stateFile, lockHolder, stateDir, containers, volumes, marker,
                 image, buildkit, clock, budget, rerun, pending, granted>>

\* stopContainer: docker stop <name>; the processes in the container die
SpStop(p) ==
  /\ pc[p] = "sp_stop"
  /\ LET w == cmd[p].ws
     IN IF Exists(w)
        THEN /\ containers' = [containers EXCEPT ![w].status = "stopped",
                                                   ![w].execs = {}]
             /\ Finish(p, "ok")
        ELSE Finish(p, "fail") /\ UNCHANGED containers
  /\ UNCHANGED <<stateFile, lockHolder, stateDir, volumes, marker,
                 image, buildkit, clock, budget, rerun, pending, granted>>

\* ------------------------------------------------------------- destroy
\* containerExists
DsExists(p) ==
  /\ pc[p] = "ds_exists"
  /\ IF Exists(cmd[p].ws) THEN Continue(p, "ds_rm", [loc[p] EXCEPT !.existed = TRUE])
     ELSE IF cmd[p].keep THEN CallLock(p, "remove", loc[p])
     ELSE Continue(p, "ds_vols", loc[p])
  /\ UNCHANGED <<stateFile, lockHolder, stateDir, containers, volumes, marker,
                 image, buildkit, clock, budget, rerun, pending, granted>>

\* removeContainer(name, {force: true}); an error is caught and skips the
\* removal of the volumes
DsRm(p) ==
  /\ pc[p] = "ds_rm"
  /\ LET w == cmd[p].ws
     IN \/ /\ containers' = [containers EXCEPT ![w] = NoContainer]
           /\ IF cmd[p].keep THEN CallLock(p, "remove", loc[p])
              ELSE Continue(p, "ds_vols", loc[p])
        \/ /\ ~Exists(w)
           /\ UNCHANGED containers
           /\ CallLock(p, "remove", loc[p])
  /\ UNCHANGED <<stateFile, lockHolder, stateDir, volumes, marker,
                 image, buildkit, clock, budget, rerun, pending, granted>>

\* destroy that leaves the volumes alone
DsVols_kept(p) ==
  /\ pc[p] = "ds_vols"
  /\ UNCHANGED <<volumes, marker>>
  /\ CallLock(p, "remove", loc[p])
  /\ UNCHANGED <<stateFile, lockHolder, stateDir, containers,
                 image, buildkit, clock, budget, rerun, pending, granted>>

\* removeVolumes: docker volume rm of the existing ones; volumes in use by
\* a container are not removed and the error is caught
DsVols(p) ==
  /\ pc[p] = "ds_vols"
  /\ LET w == cmd[p].ws
     IN IF volumes[w] # {} /\ ~Exists(w)
        THEN /\ volumes' = [volumes EXCEPT ![w] = {}]
             /\ marker' = [marker EXCEPT ![w] = FALSE]
        ELSE UNCHANGED <<volumes, marker>>
  /\ CallLock(p, "remove", loc[p])
  /\ UNCHANGED <<stateFile, lockHolder, stateDir, containers,
                 image, buildkit, clock, budget, rerun, pending, granted>>

\* removeWorkspaceState, after the lock: remove the state directory
DsRmdir(p) ==
  /\ pc[p] = "ds_rmdir"
  /\ stateDir' = [stateDir EXCEPT ![cmd[p].ws] = [runtime |-> NoRuntimeFile, key |-> FALSE]]
  /\ Finish(p, "ok")
  /\ UNCHANGED <<stateFile, lockHolder, containers, volumes, marker,
                 image, buildkit, clock, budget, rerun, pending, granted>>

\* ------------------------------------------- status, info, proxy, list
\* status: inspectContainer, "not found" ends it.  Then
\* wsInfo.configInfo ? ensureWorkspaceState(resolved) : loadWorkspaceState(name)
QState(p) ==
  /\ pc[p] = "q_state"
  /\ IF cmd[p].name = "status" /\ ~Exists(cmd[p].ws) THEN Finish(p, "noop")
     ELSE IF cmd[p].has THEN CallLock(p, "ensure", loc[p])
     ELSE Continue(p, "q_load", loc[p])
  /\ UNCHANGED <<stateFile, lockHolder, stateDir, containers, volumes, marker,
                 image, buildkit, clock, budget, rerun, pending, granted>>

\* loadWorkspaceState: fs.readFile(STATE_FILE) and JSON.parse, no lock; the
\* summary is printed, proxy needs a record
QLoad(p) ==
  /\ pc[p] = "q_load"
  /\ Finish(p, IF cmd[p].name = "proxy" /\ ~loadWorkspaceState(stateFile, cmd[p].ws).found
               THEN "fail" ELSE "ok")
  /\ UNCHANGED <<stateFile, lockHolder, stateDir, containers, volumes, marker,
                 image, buildkit, clock, budget, rerun, pending, granted>>

\* list: listWorkspaceNames calls loadState without the lock
LsLoad(p) ==
  /\ pc[p] = "ls_load"
  /\ Finish(p, "ok")
  /\ UNCHANGED <<stateFile, lockHolder, stateDir, containers, volumes, marker,
                 image, buildkit, clock, budget, rerun, pending, granted>>

Next ==
  \E p \in Procs :
    \/ Begin(p)
    \/ WlDefault(p) \/ WlLock(p) \/ WlLockFail(p)
    \/ EnsureBody(p) \/ RemoveBody(p) \/ RecordBody(p) \/ GetLastBody(p)
    \/ StExists(p) \/ StRuntime(p) \/ ImgBuild(p)
    \/ BkNet(p) \/ BkNetCreate(p) \/ BkRun(p)
    \/ StAfterBk(p) \/ StCreate(p) \/ StartContainer(p) \/ Connect(p)
    \/ WaitDockerd(p) \/ WaitDockerdTimeout(p)
    \/ Buildx(p) \/ Verify(p)
    \/ InitKilled(p) \/ InitClone(p) \/ InitCloneRetry(p) \/ InitBootstrap(p)
    \/ SpCheck(p) \/ SpStop(p)
    \/ DsExists(p) \/ DsRm(p) \/ DsVols(p) \/ DsRmdir(p)
    \/ QState(p) \/ QLoad(p) \/ LsLoad(p)

Spec == Init /\ [][Next]_vars

TypeOK ==
  /\ lockHolder \in Procs \cup {NoProc}
  /\ budget \in 0..MaxCmds
  /\ image \in Nat

\* ------------------------------------------------------------ properties
\* The steps that write state.json (saveState).
WritesStateFile(p) ==
  \/ WlDefault(p) \/ EnsureBody(p) \/ RecordBody(p)
  \/ RemoveBody(p) /\ cmd[p].ws \in DOMAIN stateFile.workspaces

\* The steps that read state.json (loadState, loadWorkspaceState).
ReadsStateFile(p) ==
  \/ EnsureBody(p) \/ RemoveBody(p) \/ RecordBody(p) \/ GetLastBody(p)
  \/ QLoad(p) \/ LsLoad(p)

\* ------------------------------------------- the state store on its own
\* The functions of the state store, called with arguments drawn from
\* bounded sets.  The ports looked at:
ProbePorts == SSH_PORT_START .. (SSH_PORT_START + MaxProbe)

\* A state with one record for each allocated port (the workspaces are
\* named by their ports here).
PortState(allocated) ==
  [workspaces |-> [a \in allocated |->
                     [sshPort |-> a, forwards |-> <<>>, configDir |-> "",
                      selectedKey |-> NoKey]],
   lastBuildAt |-> NoTime]

\* Records state.json can hold for a workspace, as normalizeWorkspaceState
\* accepts them.
StoredRecords ==
  [sshPort : SSH_PORT_START .. (SSH_PORT_START + 2),
   forwards : {<<>>, <<3000>>, <<8080>>},
   configDir : {"dirA", "dirB", "dirOld"},
   selectedKey : {NoKey, "id_work"}]

\* States with records for some workspaces, no port twice.
StoredStates ==
  {[workspaces |-> f, lastBuildAt |-> NoTime] :
     f \in {g \in UNION {[D -> StoredRecords] : D \in SUBSET WS} :
              \A m \in DOMAIN g, n \in DOMAIN g :
                 m # n => g[m].sshPort # g[n].sshPort}}

\* getListeningPorts where `ss -tlnH` may not run: the ports it printed, or
\* none when the command failed.
ssPorts(listening, ssRuns) == IF ssRuns THEN listening ELSE {}

\* listening: the ports that do listen on the host; ss: `ss` can be run
PortCalls ==
  [fn : {"findAvailableSshPort"}, allocated : SUBSET ProbePorts,
   listening : SUBSET ProbePorts, ss : BOOLEAN]

EnsureCalls ==
  [fn : {"ensureWorkspaceState"}, st : StoredStates, name : WS,
   listening : SUBSET {SSH_PORT_START, SSH_PORT_START + 1}]

\* The fresh host, no command launched.
FreshHost ==
  /\ stateFile = NoFile
  /\ lockHolder = NoProc
  /\ stateDir = [w \in WS |-> [runtime |-> NoRuntimeFile, key |-> FALSE]]
  /\ containers = [w \in WS |-> NoContainer]
  /\ volumes = [w \in WS |-> {}]
  /\ marker = [w \in WS |-> FALSE]
  /\ image = 0
  /\ buildkit = [net |-> FALSE, vol |-> FALSE, ctr |-> "none"]
  /\ clock = 0
  /\ granted = [w \in WS |-> 0]
  /\ pc = [p \in Procs |-> "idle"]
  /\ cmd = [p \in Procs |-> NoCmd]
  /\ loc = [p \in Procs |-> NoLoc]
  /\ trace = [p \in Procs |-> <<>>]
  /\ outcome = [p \in Procs |-> Nil]
  /\ budget = 0
  /\ rerun = [w \in WS |-> FALSE]
  /\ pending = [w \in WS |-> FALSE]

StoreInit ==
  /\ FreshHost
  /\ call \in PortCalls \cup EnsureCalls
  /\ ret = NoRet
  /\ box = BoxBoot /\ wait = NoWait /\ boot = NoBoot

\* findAvailableSshPort(state)
CallFindPort ==
  /\ call.fn = "findAvailableSshPort" /\ ret = NoRet
  /\ ret' = [fn |-> call.fn,
             value |-> findAvailableSshPort(PortState(call.allocated),
                                            ssPorts(call.listening, call.ss))]
  /\ UNCHANGED <<call, box, boot, wait, hostVars>>

\* ensureWorkspaceState(resolved): the saved state and the returned record
CallEnsure ==
  /\ call.fn = "ensureWorkspaceState" /\ ret = NoRet
  /\ LET st2 == ensuredState(call.st, call.name, ConfigOf(call.name), call.listening)
     IN ret' = [fn |-> call.fn, state |-> st2, value |-> st2.workspaces[call.name]]
  /\ UNCHANGED <<call, box, boot, wait, hostVars>>

StoreNext == CallFindPort \/ CallEnsure

StoreSpec == StoreInit /\ [][StoreNext]_vars

\* ------------------------------------------- inside the container
\* runEntrypoint's first step: `await syncUserWithHost()`, which returns
\* without a change (no HOST_UID or HOST_GID, ids of root, ids that are the
\* user's already), returns after the change, or throws when id, groupmod
\* or usermod fails; nothing catches what it throws, so the process ends.
EpStart ==
  /\ box.ep = "sync"
  /\ \/ \E r \in {"skipped", "synced"} :
          box' = [box EXCEPT !.ep = "keys", !.sync = r]
     \/ box' = [box EXCEPT !.ep = "exited", !.code = 1, !.sync = "failed"]
  /\ UNCHANGED <<call, ret, boot, wait, hostVars>>

\* addSshKeys in its try block, its failure logged only; ensureDockerd
\* spawns dockerd.
EpKeys ==
  /\ box.ep = "keys"
  /\ \E r \in {"installed", "failed"} :
       box' = [box EXCEPT !.ep = "wait", !.keys = r, !.dockerd = "starting"]
  /\ UNCHANGED <<call, ret, boot, wait, hostVars>>

\* waitForDocker that gives up waiting and lets the entrypoint go on
EpProbe_lenient ==
  /\ box.ep = "wait"
  /\ IF box.dockerd = "up"
     THEN box' = [box EXCEPT !.ep = "sshd", !.ready = TRUE]
     ELSE IF box.tries + 1 < DOCKER_WAIT_TRIES
     THEN box' = [box EXCEPT !.tries = @ + 1]
     ELSE box' = [box EXCEPT !.tries = @ + 1, !.ep = "sshd"]
  /\ UNCHANGED <<call, ret, boot, wait, hostVars>>

\* One round of waitForDocker: `docker version` succeeds and the entrypoint
\* goes on, or it fails and a second is waited; after the last round
\* waitForDocker returns false and the entrypoint calls process.exit(1).
EpProbe ==
  /\ box.ep = "wait"
  /\ IF box.dockerd = "up"
     THEN box' = [box EXCEPT !.ep = "sshd", !.ready = TRUE]
     ELSE IF box.tries + 1 < DOCKER_WAIT_TRIES
     THEN box' = [box EXCEPT !.tries = @ + 1]
     ELSE box' = [box EXCEPT !.tries = @ + 1, !.ep = "exited", !.code = 1]
  /\ UNCHANGED <<call, ret, boot, wait, hostVars>>

\* startSshd; void monitorServices(); tailDockerdLogs
EpSshd ==
  /\ box.ep = "sshd"
  /\ box' = [box EXCEPT !.ep = "serving", !.sshd = "up", !.mon = "sleep", !.slept = 0]
  /\ UNCHANGED <<call, ret, boot, wait, hostVars>>

\* dockerd answers on its socket.
DockerdReady ==
  /\ box.ep # "exited" /\ box.dockerd = "starting"
  /\ box' = [box EXCEPT !.dockerd = "up"]
  /\ UNCHANGED <<call, ret, boot, wait, hostVars>>

\* dockerd or sshd dies.
DaemonCrash ==
  /\ box.ep # "exited"
  /\ \/ box.dockerd # "down" /\ box' = [box EXCEPT !.dockerd = "down"]
     \/ box.sshd # "down" /\ box' = [box EXCEPT !.sshd = "down"]
  /\ UNCHANGED <<call, ret, boot, wait, hostVars>>

\* monitorServices: a second of delay(10000) passes
MonTick ==
  /\ box.mon = "sleep" /\ box.slept < MONITOR_PERIOD
  /\ box' = [box EXCEPT !.slept = @ + 1]
  /\ UNCHANGED <<call, ret, boot, wait, hostVars>>

\* monitorServices that logs a missing dockerd and starts nothing
MonCheckDocker_log ==
  /\ box.mon = "sleep" /\ box.slept = MONITOR_PERIOD
  /\ box' = [box EXCEPT !.mon = IF box.dockerd = "down" THEN "settle" ELSE "sshd"]
  /\ UNCHANGED <<call, ret, boot, wait, hostVars>>

\* monitorServices after the delay: pgrep -x dockerd; none: startDockerd
MonCheckDocker ==
  /\ box.mon = "sleep" /\ box.slept = MONITOR_PERIOD
  /\ IF box.dockerd = "down"
     THEN box' = [box EXCEPT !.dockerd = "starting", !.mon = "settle",
                             !.restarted = @ \cup {"dockerd"}]
     ELSE box' = [box EXCEPT !.mon = "sshd"]
  /\ UNCHANGED <<call, ret, boot, wait, hostVars>>

\* monitorServices: delay(2000) after startDockerd
MonSettle ==
  /\ box.mon = "settle"
  /\ box' = [box EXCEPT !.mon = "sshd"]
  /\ UNCHANGED <<call, ret, boot, wait, hostVars>>

\* monitorServices: pgrep -x sshd; none: startSshd; the next delay begins
MonCheckSshd ==
  /\ box.mon = "sshd"
  /\ IF box.sshd = "down"
     THEN box' = [box EXCEPT !.sshd = "up", !.mon = "sleep", !.slept = 0,
                             !.restarted = @ \cup {"sshd"}]
     ELSE box' = [box EXCEPT !.mon = "sleep", !.slept = 0]
  /\ UNCHANGED <<call, ret, boot, wait, hostVars>>

\* The steps of the monitor loop.
Monitor == MonTick \/ MonCheckDocker \/ MonSettle \/ MonCheckSshd

BoxInit == FreshHost /\ call = NoCall /\ ret = NoRet /\ box = BoxBoot /\ wait = NoWait /\ boot = NoBoot

BoxNext ==
  \/ EpStart \/ EpKeys \/ EpProbe \/ EpSshd \/ DockerdReady \/ DaemonCrash
  \/ MonTick \/ MonCheckDocker \/ MonSettle \/ MonCheckSshd

\* The event loop of the entrypoint process runs its timers and callbacks.
BoxSpec == BoxInit /\ [][BoxNext]_vars /\ WF_vars(Monitor)

\* The container where a command may fail to be spawned.  runCommand
\* rejects on the "error" event of the child whatever ignoreFailure says;
\* isProcessRunning and startSshd pass the rejection on and the loop of
\* monitorServices has no try block, so the promise that `void
\* monitorServices()` dropped is rejected and the loop is over.  What the
\* runtime does with the unhandled rejection depends on its version and
\* flags: it reports it and the process lives on, or it ends the process.
MonSpawnError ==
  /\ box.ep = "serving"
  /\ \/ box.mon = "sleep" /\ box.slept = MONITOR_PERIOD
     \/ box.mon = "sshd"
  /\ \/ box' = [box EXCEPT !.mon = "dead"]
     \/ box' = [box EXCEPT !.mon = "dead", !.ep = "exited", !.code = 1,
                            !.dockerd = "down", !.sshd = "down"]
  /\ UNCHANGED <<call, ret, boot, wait, hostVars>>

SupNext == BoxNext \/ MonSpawnError

SupSpec == BoxInit /\ [][SupNext]_vars /\ WF_vars(Monitor)


\* ------------------------------------------------- the image step of start
\* The times a start can find itself at when the last build was recorded at
\* time 0: at once, at the maximum age, and past it.
Clocks == {0, SHARED_IMAGE_MAX_AGE, SHARED_IMAGE_MAX_AGE + 1}

\* Hosts before a start: fresh, or with w1 started and stopped earlier;
\* workspace:latest present or removed; a build recorded at time 0 or none.
ImageInit ==
  /\ \E used \in BOOLEAN, img \in {0, 1}, last \in {NoTime, <<0>>}, now \in Clocks :
       LET st   == ensuredState(DEFAULT_STATE, "w1", ConfigOf("w1"),
                                getListeningPorts([w \in WS |-> NoContainer]))
           port == st.workspaces["w1"].sshPort
           on(w) == used /\ w = "w1"
       IN /\ ~used => last = NoTime
          /\ stateFile = IF used THEN saveState([st EXCEPT !.lastBuildAt = last])
                                 ELSE NoFile
          /\ stateDir = [w \in WS |->
               IF on(w)
               THEN [runtime |-> [exists |-> TRUE, port |-> port,
                                  selectedKey |-> ConfigOf(w).key,
                                  forwards |-> ConfigOf(w).forwards,
                                  scripts |-> ConfigOf(w).scripts],
                     key |-> TRUE]
               ELSE [runtime |-> NoRuntimeFile, key |-> FALSE]]
          /\ containers = [w \in WS |->
               IF on(w)
               THEN [status |-> "stopped", port |-> port,
                     remote |-> ConfigOf(w).remote, image |-> 1, net |-> TRUE,
                     execs |-> {}, env |-> assembleRunArgs(ConfigOf(w))]
               ELSE NoContainer]
          /\ volumes = [w \in WS |-> IF on(w) THEN VolNames ELSE {}]
          /\ marker = [w \in WS |-> on(w)]
          /\ image = img
          /\ buildkit = IF used THEN [net |-> TRUE, vol |-> TRUE, ctr |-> "running"]
                                ELSE [net |-> FALSE, vol |-> FALSE, ctr |-> "none"]
          /\ clock = now
          /\ granted = [w \in WS |-> IF on(w) THEN port ELSE 0]
  /\ lockHolder = NoProc
  /\ pc = [p \in Procs |-> "idle"]
  /\ cmd = [p \in Procs |-> NoCmd]
  /\ loc = [p \in Procs |-> NoLoc]
  /\ trace = [p \in Procs |-> <<>>]
  /\ outcome = [p \in Procs |-> Nil]
  /\ budget = MaxCmds
  /\ rerun = [w \in WS |-> FALSE]
  /\ pending = [w \in WS |-> FALSE]
  /\ call = NoCall /\ ret = NoRet /\ box = BoxBoot /\ boot = NoBoot /\ wait = NoWait

\* A start or a build is launched.
BeginImage(p) == Begin(p) /\ cmd'[p].name \in {"start", "build"}

\* start up to the return of ensureImage, and build.
ImageNext ==
  \E p \in Procs :
    \/ BeginImage(p)
    \/ StExists(p) \/ StRuntime(p) \/ ImgBuild(p)
    \/ WlDefault(p) \/ WlLock(p) \/ WlLockFail(p)
    \/ EnsureBody(p) \/ RecordBody(p) \/ GetLastBody(p)

ImageSpec == ImageInit /\ [][ImageNext]_vars


\* ------------------------------------------- the readiness waits of start
\* The full path waits for the container, then for its Docker daemon; the
\* restart of an existing container waits for the daemon only.
WaitTimeout(step) == IF step = "container" THEN WAIT_CONTAINER_MS ELSE WAIT_DOCKERD_MS
WaitPoll(step) == IF step = "container" THEN CONTAINER_POLL_MS ELSE DOCKERD_POLL_MS

\* How long a `docker exec` probe can take; runCommand sets no limit.
ProbeTimes == {k * CONTAINER_POLL_MS : k \in 0..MaxProbeTime}

WaitInit ==
  /\ FreshHost
  /\ call = NoCall /\ ret = NoRet /\ box = BoxBoot /\ boot = NoBoot
  /\ \E first \in {"container", "dockerd"} :
       wait = [step |-> first, phase |-> "test", startTime |-> 0, now |-> 0,
               took |-> <<>>]

\* while (Date.now() - startTime < timeoutMs): the next probe is spawned, or
\* the loop is left and the wait throws, which ends start.
WtTest ==
  /\ wait.step \in {"container", "dockerd"} /\ wait.phase = "test"
  /\ wait' = IF wait.now - wait.startTime < WaitTimeout(wait.step)
             THEN [wait EXCEPT !.phase = "probe"]
             ELSE [wait EXCEPT !.step = "failed",
                               !.took = Append(@, [fn |-> wait.step,
                                                   ms |-> wait.now - wait.startTime])]
  /\ UNCHANGED <<call, ret, box, boot, hostVars>>

\* The probe (docker exec <name> true, docker exec <name> docker info) ends
\* after some time: with status 0 the wait returns and start goes on with
\* the next wait or with configureBuildxInContainer; else the loop sleeps.
WtProbe ==
  /\ wait.step \in {"container", "dockerd"} /\ wait.phase = "probe"
  /\ \E d \in ProbeTimes, ok \in BOOLEAN :
       LET now == wait.now + d
       IN wait' = IF ok
                  THEN [wait EXCEPT
                          !.now = now, !.startTime = now, !.phase = "test",
                          !.step = IF wait.step = "container" THEN "dockerd" ELSE "buildx",
                          !.took = Append(@, [fn |-> wait.step,
                                              ms |-> now - wait.startTime])]
                  ELSE [wait EXCEPT !.now = now, !.phase = "sleep"]
  /\ UNCHANGED <<call, ret, box, boot, hostVars>>

\* await sleep(500) or sleep(1000) in the catch
WtSleep ==
  /\ wait.step \in {"container", "dockerd"} /\ wait.phase = "sleep"
  /\ wait' = [wait EXCEPT !.now = @ + WaitPoll(wait.step), !.phase = "test"]
  /\ UNCHANGED <<call, ret, box, boot, hostVars>>

\* configureBuildxInContainer is done and runInitScript is called.
WtInit ==
  /\ wait.step = "buildx"
  /\ wait' = [wait EXCEPT !.step = "init"]
  /\ UNCHANGED <<call, ret, box, boot, hostVars>>

WaitNext == WtTest \/ WtProbe \/ WtSleep \/ WtInit

WaitSpec == WaitInit /\ [][WaitNext]_vars

\* -------------------------------------- the bootstrap scripts of an init
\* File names are sequences of character codes: "1", "10" and "2".
FileNames == {<<49>>, <<49, 48>>, <<50>>}

\* The order of Array.prototype.sort() without a comparator: by code units,
\* a proper prefix first.
RECURSIVE codeUnitLess(_, _)
codeUnitLess(a, b) ==
  IF a = <<>> THEN b # <<>>
  ELSE IF b = <<>> THEN FALSE
  ELSE IF Head(a) # Head(b) THEN Head(a) < Head(b)
  ELSE codeUnitLess(Tail(a), Tail(b))

\* files.sort(): the files of one directory, so the full paths compare as
\* the names do.
RECURSIVE sortFiles(_)
sortFiles(files) ==
  IF files = <<>> THEN <<>>
  ELSE LET rest == sortFiles(Tail(files))
           f == Head(files)
           before == SelectSeq(rest, LAMBDA g : codeUnitLess(g, f))
           after == SelectSeq(rest, LAMBDA g : ~codeUnitLess(g, f))
       IN before \o <<f>> \o after

\* listExecutableFiles that keeps the order readdir gave
listExecutableFiles_unsorted(dir) ==
  LET regular == SelectSeq(dir.files, LAMBDA e : e.exec)
  IN [i \in 1..Len(regular) |-> regular[i].name]

\* listExecutableFiles(dir): the executable regular files, sorted
listExecutableFiles(dir) ==
  LET regular == SelectSeq(dir.files, LAMBDA e : e.exec)
  IN sortFiles([i \in 1..Len(regular) |-> regular[i].name])

\* Paths that are empty once trimmed.
BlankPaths == {"", " "}

\* mergeConfigs and resolveConfig on bootstrap.scripts: the project's
\* scripts, then the user's, each tagged with where it came from.
mergedScripts(projectScripts, userScripts) ==
  [i \in 1..Len(projectScripts) |-> [path |-> projectScripts[i], source |-> "project"]]
  \o [i \in 1..Len(userScripts) |-> [path |-> userScripts[i], source |-> "user"]]

\* buildBootstrapEntries(config): the scripts with a path, in order
buildBootstrapEntries(scripts) ==
  SelectSeq(scripts, LAMBDA e : e.path \notin BlankPaths)

\* The script a bootstrap entry runs: the entry's position and, inside a
\* directory, the file's name.
Script(i, name) == [entry |-> i, name |-> name]

\* What stat finds at the path of a file entry.
PlainFiles ==
  {[kind |-> "missing", exec |-> FALSE, files |-> <<>>],
   [kind |-> "file", exec |-> FALSE, files |-> <<>>],
   [kind |-> "file", exec |-> TRUE, files |-> <<>>]}

\* A directory and its regular files in the order readdir gives them.
Directories ==
  {[kind |-> "dir", exec |-> TRUE, files |-> l] :
     l \in {l \in UNION {[1..n -> [name : FileNames, exec : BOOLEAN]] :
                           n \in 0..Cardinality(FileNames)} :
              \A i, j \in DOMAIN l : i # j => l[i].name # l[j].name}}

ProjectPaths == {"setup.sh", "scripts", " "}
UserPaths == {"user.sh"}

SeqsUpTo(S, n) == UNION {[1..k -> S] : k \in 0..n}

BootInit ==
  /\ FreshHost
  /\ call = NoCall /\ ret = NoRet /\ box = BoxBoot /\ wait = NoWait
  /\ \E ps \in SeqsUpTo(ProjectPaths, MaxScripts), us \in SeqsUpTo(UserPaths, 1),
        setup \in PlainFiles, user \in PlainFiles, dir \in Directories :
       boot = [state |-> "init",
               scripts |-> mergedScripts(ps, us),
               fs |-> [x \in ProjectPaths \cup UserPaths |->
                         IF x = "setup.sh" THEN setup
                         ELSE IF x = "user.sh" THEN user
                         ELSE IF x = "scripts" THEN dir
                         ELSE [kind |-> "missing", exec |-> FALSE, files |-> <<>>]],
               entries |-> <<>>, idx |-> 0, queue |-> <<>>,
               started |-> <<>>, codes |-> <<>>, error |-> Nil]

\* runInit: buildBootstrapEntries, then runBootstrapScripts, which returns
\* at once without entries.
BsBegin ==
  /\ boot.state = "init"
  /\ LET entries == buildBootstrapEntries(boot.scripts)
     IN boot' = [boot EXCEPT !.entries = entries, !.idx = 1,
                             !.state = IF entries = <<>> THEN "done" ELSE "stat"]
  /\ UNCHANGED <<call, ret, box, hostVars, wait>>

\* The loop goes on with the entry after idx, or returns.
NextEntry(b) ==
  [b EXCEPT !.idx = @ + 1, !.queue = <<>>,
            !.state = IF b.idx + 1 > Len(b.entries) THEN "done" ELSE "stat"]

\* One entry of the loop up to its first script: stat, then the listing of
\* a directory or the permission test of a file.
BsStat_unsorted ==
  /\ boot.state = "stat"
  /\ LET f == boot.fs[boot.entries[boot.idx].path]
         files == listExecutableFiles_unsorted(f)
     IN boot' =
          IF f.kind = "missing"
          THEN [boot EXCEPT !.state = "failed", !.error = "bootstrap script missing"]
          ELSE IF f.kind = "dir"
          THEN IF files = <<>> THEN NextEntry(boot)
               ELSE [boot EXCEPT !.state = "spawn",
                                 !.queue = [i \in 1..Len(files) |-> Script(boot.idx, files[i])]]
          ELSE IF ~f.exec
          THEN [boot EXCEPT !.state = "failed", !.error = "bootstrap script not executable"]
          ELSE [boot EXCEPT !.state = "spawn", !.queue = <<Script(boot.idx, <<>>)>>]
  /\ UNCHANGED <<call, ret, box, hostVars, wait>>

BsStat ==
  /\ boot.state = "stat"
  /\ LET f == boot.fs[boot.entries[boot.idx].path]
         files == listExecutableFiles(f)
     IN boot' =
          IF f.kind = "missing"
          THEN [boot EXCEPT !.state = "failed", !.error = "bootstrap script missing"]
          ELSE IF f.kind = "dir"
          THEN IF files = <<>> THEN NextEntry(boot)
               ELSE [boot EXCEPT !.state = "spawn",
                                 !.queue = [i \in 1..Len(files) |-> Script(boot.idx, files[i])]]
          ELSE IF ~f.exec
          THEN [boot EXCEPT !.state = "failed", !.error = "bootstrap script not executable"]
          ELSE [boot EXCEPT !.state = "spawn", !.queue = <<Script(boot.idx, <<>>)>>]
  /\ UNCHANGED <<call, ret, box, hostVars, wait>>

\* runCommand spawns the script at the head of the queue.
BsSpawn ==
  /\ boot.state = "spawn"
  /\ boot' = [boot EXCEPT !.state = "running", !.started = Append(@, Head(boot.queue))]
  /\ UNCHANGED <<call, ret, box, hostVars, wait>>

\* The script exits and the awaited runCommand resolves with its status: a
\* status other than 0 throws, else the loop goes on.
BsExit ==
  /\ boot.state = "running"
  /\ \E code \in {0, 1} :
       LET b == [boot EXCEPT !.codes = Append(@, code), !.queue = Tail(@)]
       IN boot' = IF code # 0
                  THEN [b EXCEPT !.state = "failed", !.error = "bootstrap script failed"]
                  ELSE IF b.queue = <<>> THEN NextEntry(b)
                  ELSE [b EXCEPT !.state = "spawn"]
  /\ UNCHANGED <<call, ret, box, hostVars, wait>>

BootNext == BsBegin \/ BsStat \/ BsSpawn \/ BsExit

BootSpec == BootInit /\ [][BootNext]_vars

\* --------------------------------- functions of the agent and the resolver
\* Functions called on their own, with arguments drawn from bounded sets.
\* Lines of text are sequences of character codes: 32 is the space, <<107>>
\* stands for the public key of the workspace.
trim(line) ==
  LET inner == {i \in DOMAIN line : line[i] # 32}
  IN IF inner = {} THEN <<>>
     ELSE LET first == CHOOSE i \in inner : \A j \in inner : i <= j
              last  == CHOOSE i \in inner : \A j \in inner : j <= i
          IN SubSeq(line, first, last)

\* readFileLines(target): the content split at the line feeds, which leaves
\* an empty string after the last one.
readFileLines(file) == file.lines \o <<<<>>>>

\* writeFileLines(target, lines)
writeFileLines(lines) == [exists |-> TRUE, lines |-> lines]

\* .map((line) => line.trim()).filter((line) => line)
trimmedLines(file) ==
  LET raw == readFileLines(file)
  IN SelectSeq([i \in DOMAIN raw |-> trim(raw[i])], LAMBDA l : l # <<>>)

\* addSshKeys from the look at authorized_keys to its last rewrite
addSshKeys(file, publicKey) ==
  LET f0 == IF file.exists THEN file ELSE writeFileLines(<<>>)
      lines == trimmedLines(f0)
      f1 == IF publicKey # <<>> /\ \A i \in DOMAIN lines : lines[i] # publicKey
            THEN writeFileLines(sortFiles(Append(lines, publicKey)))
            ELSE f0
  IN writeFileLines(sortFiles(trimmedLines(f1)))


\* ------------------------------------------------------- SSH key selection
\* URLs and patterns are written with "a" (97), "." (46) and "*" (42).
\* The regular expression matchPattern builds: the special characters are
\* escaped and stand for themselves, every "*" becomes ".*".
regexOf(pattern) ==
  [i \in DOMAIN pattern |->
     IF pattern[i] = 42 THEN [kind |-> "anyString", char |-> 0]
     ELSE [kind |-> "char", char |-> pattern[i]]]

\* new RegExp(`^${regexPattern}$`).test(url)
RECURSIVE regexTest(_, _)
regexTest(regex, url) ==
  IF regex = <<>> THEN url = <<>>
  ELSE IF Head(regex).kind = "anyString"
  THEN \E n \in 0..Len(url) : regexTest(Tail(regex), SubSeq(url, n + 1, Len(url)))
  ELSE /\ url # <<>>
       /\ Head(url) = Head(regex).char
       /\ regexTest(Tail(regex), Tail(url))

\* matchPattern(url, pattern)
matchPattern(url, pattern) ==
  IF \A i \in DOMAIN pattern : pattern[i] # 42
  THEN url = pattern
  ELSE regexTest(regexOf(pattern), url)

\* matchRepoToKey that takes the entries as they come, exact ones included
matchRepoToKey_inOrder(repoUrl, repos) ==
  LET hits == {i \in DOMAIN repos : matchPattern(repoUrl, repos[i].pattern)}
  IN IF repoUrl = <<>> \/ hits = {} THEN NoKey
     ELSE repos[CHOOSE i \in hits : \A j \in hits : i <= j].key

\* matchRepoToKey(repoUrl, userConfig): repos[repoUrl], else the first entry
\* of Object.entries(repos) whose pattern matches, else null.  repos holds
\* the entries of ssh.repos in insertion order.
matchRepoToKey(repoUrl, repos) ==
  LET exact == {i \in DOMAIN repos : repos[i].pattern = repoUrl}
      hits  == {i \in DOMAIN repos : matchPattern(repoUrl, repos[i].pattern)}
  IN IF repoUrl = <<>> THEN NoKey
     ELSE IF exact # {} THEN repos[CHOOSE i \in exact : TRUE].key
     ELSE IF hits # {} THEN repos[CHOOSE i \in hits : \A j \in hits : i <= j].key
     ELSE NoKey

\* selectDefaultKey(userConfig): ssh.defaultKey, else what the agent, the
\* standard key files and the discovery give (found), which can be nothing.
selectDefaultKey(cfg) == IF cfg.defaultKey # NoKey THEN cfg.defaultKey ELSE cfg.found

\* selectKeyForRepo(repoUrl, userConfig)
selectKeyForRepo(repoUrl, cfg) ==
  LET repoKey == matchRepoToKey(repoUrl, cfg.repos)
  IN IF repoKey # NoKey THEN repoKey ELSE selectDefaultKey(cfg)

\* ssh.repos: entries with distinct patterns, each naming a key file.
RepoMaps ==
  {r \in SeqsUpTo([pattern : SeqsUpTo({97, 46, 42}, MaxUrl) \ {<<>>},
                   key : {"id_a", "id_b"}], MaxRepos) :
     \A i, j \in DOMAIN r : i # j => r[i].pattern # r[j].pattern}

SelectCalls ==
  [fn : {"selectKeyForRepo"}, repoUrl : SeqsUpTo({97, 46}, MaxUrl),
   cfg : [repos : RepoMaps, defaultKey : {NoKey, "id_default"},
          found : {NoKey, "id_ed25519"}]]

CallSelectKey ==
  /\ call.fn = "selectKeyForRepo" /\ ret = NoRet
  /\ ret' = [fn |-> call.fn, value |-> selectKeyForRepo(call.repoUrl, call.cfg)]
  /\ UNCHANGED <<call, box, boot, wait, hostVars>>


\* --------------------------------------------- forwards in resolveConfig
\* A JavaScript value the callback of flatMap returns: a number, kept as
\* twice its value so that halves can be told from integers, NaN, or null.
NumberOf(n) == [kind |-> "number", twice |-> 2 * n]
NaN == [kind |-> "NaN", twice |-> 0]
Null == [kind |-> "null", twice |-> 0]

\* Strings are written with "0" (48), "1" (49), "-" (45) and "x" (120).
\* The decimal digits at the front of a string.
RECURSIVE digitsPrefix(_)
digitsPrefix(str) ==
  IF str = <<>> \/ Head(str) \notin 48..57 THEN <<>>
  ELSE <<Head(str)>> \o digitsPrefix(Tail(str))

RECURSIVE decimal(_)
decimal(digits) ==
  IF digits = <<>> THEN 0
  ELSE 10 * decimal(SubSeq(digits, 1, Len(digits) - 1)) + (digits[Len(digits)] - 48)

\* Number.parseInt(s.trim(), 10): an optional sign and the digits that
\* follow it, whatever comes after them; NaN without a digit.
parseInt(str) ==
  LET t == trim(str)
      negative == t # <<>> /\ Head(t) = 45
      digits == digitsPrefix(IF negative THEN Tail(t) ELSE t)
  IN IF digits = <<>> THEN NaN
     ELSE NumberOf(IF negative THEN 0 - decimal(digits) ELSE decimal(digits))

\* forward.split("-"): the first two of the parts; the string holds the
\* separator, so there are two at least.
splitAt(str, sep) ==
  LET seps == {i \in DOMAIN str : str[i] = sep}
      first == CHOOSE i \in seps : \A j \in seps : i <= j
      later == {i \in seps : i > first}
      second == IF later = {} THEN Len(str) + 1
                ELSE CHOOSE i \in later : \A j \in later : i <= j
  IN <<SubSeq(str, 1, first - 1), SubSeq(str, first + 1, second - 1)>>

\* String(forward.internal) of an integer of one digit
toString(n) == IF n < 0 THEN <<45, 48 - n>> ELSE <<48 + n>>

\* The callback of flatMap on one entry of forwards, as the list of the
\* values it adds.  An entry is a number, a string, an object whose
\* `internal` is a string or an integer or is missing, or a boolean.
forwardPorts(forward) ==
  CASE forward.type = "number" -> <<forward.num>>
    [] forward.type = "string" /\ (\E i \in DOMAIN forward.str : forward.str[i] = 45) ->
         LET parts == splitAt(forward.str, 45)
             start == parseInt(parts[1])
             end   == parseInt(parts[2])
         IN IF /\ start.kind = "number" /\ end.kind = "number"
               /\ start.twice <= end.twice /\ start.twice > 0
            THEN [i \in 1..((end.twice - start.twice) \div 2 + 1) |->
                    [kind |-> "number", twice |-> start.twice + 2 * (i - 1)]]
            ELSE <<Null>>
    [] forward.type = "objectString" /\ forward.str # <<>> -> <<parseInt(forward.str)>>
    [] forward.type = "objectNumber" /\ forward.num.twice # 0 ->
         <<parseInt(toString(forward.num.twice \div 2))>>
    [] OTHER -> <<Null>>

RECURSIVE flatMapForwards(_)
flatMapForwards(forwards) ==
  IF forwards = <<>> THEN <<>>
  ELSE forwardPorts(Head(forwards)) \o flatMapForwards(Tail(forwards))

\* resolveConfig on config.forwards: flatMap, then the filter that keeps
\* what is not null, not NaN and above 0.  An entry that is null makes
\* `forward.internal` throw.
resolveForwards(forwards) ==
  IF \E i \in DOMAIN forwards : forwards[i].type = "null"
  THEN [thrown |-> TRUE, ports |-> <<>>]
  ELSE [thrown |-> FALSE,
        ports |-> SelectSeq(flatMapForwards(forwards),
                            LAMBDA v : v.kind = "number" /\ v.twice > 0)]

\* What a YAML list of forwards can hold.
ForwardEntries ==
  {[type |-> "number", num |-> [kind |-> "number", twice |-> k], str |-> <<>>] :
     k \in {-2, 0, 2, 3, 4}}
  \cup {[type |-> "string", num |-> Null, str |-> c] :
          c \in SeqsUpTo({48, 49, 45, 120}, MaxChars)}
  \cup {[type |-> "objectString", num |-> Null, str |-> c] :
          c \in SeqsUpTo({48, 49, 45, 120}, 2)}
  \cup {[type |-> "objectNumber", num |-> NumberOf(k), str |-> <<>>] : k \in {-1, 0, 2}}
  \cup {[type |-> t, num |-> Null, str |-> <<>>] : t \in {"object", "boolean", "null"}}

CallResolveForwards ==
  /\ call.fn = "resolveConfig" /\ ret = NoRet
  /\ ret' = [fn |-> call.fn, value |-> resolveForwards(call.forwards)]
  /\ UNCHANGED <<call, box, boot, wait, hostVars>>

RawLines == {<<>>, <<97>>, <<32, 97>>, <<107>>, <<107, 32>>, <<122>>}

\* authorized_keys as the volume or the copy of /host/home/.ssh left it,
\* and $SSH_PUBLIC_KEY, which ensureSshKey trimmed, or unset.
KeyCalls ==
  [fn : {"addSshKeys"},
   file : {[exists |-> FALSE, lines |-> <<>>]} \cup
          {[exists |-> TRUE, lines |-> l] : l \in SeqsUpTo(RawLines, MaxLines)},
   publicKey : {<<>>, <<107>>}]

LibInit ==
  /\ FreshHost
  /\ \/ call \in KeyCalls
     \/ call \in SelectCalls
     \/ \E n \in 0..MaxForwards : \E forwards \in [1..n -> ForwardEntries] :
          call = [fn |-> "resolveConfig", forwards |-> forwards]
  /\ ret = NoRet
  /\ box = BoxBoot /\ boot = NoBoot /\ wait = NoWait

\* The entrypoint runs addSshKeys: the first time on the file as it was,
\* then, the container being restarted, on the file it left.
CallAddSshKeys ==
  /\ call.fn = "addSshKeys"
  /\ IF ret = NoRet
     THEN ret' = [fn |-> call.fn, runs |-> 1,
                  file |-> addSshKeys(call.file, call.publicKey)]
     ELSE /\ ret.runs < MaxRuns
          /\ ret' = [ret EXCEPT !.runs = @ + 1,
                                !.file = addSshKeys(ret.file, call.publicKey)]
  /\ UNCHANGED <<call, box, boot, wait, hostVars>>

LibNext == CallAddSshKeys \/ CallSelectKey \/ CallResolveForwards

LibSpec == LibInit /\ [][LibNext]_vars

\* ------------------------------------- state.json as it is found on disk
\* A JSON value of a field of a workspace record: absent (undefined), null,
\* a number (twice its value, as in the forwards), a string, or an array
\* of such values.
JsVal(t, twice, items) == [t |-> t, twice |-> twice, items |-> items]
Undefined == JsVal("undefined", 0, <<>>)
JsNull    == JsVal("null", 0, <<>>)
JsNumber(twice) == JsVal("number", twice, <<>>)
JsString  == JsVal("string", 0, <<>>)
JsArray(items) == JsVal("array", 0, items)

\* What a record of state.json can be: something that is no object, or an
\* object with any of the fields absent or of another type.
RawRecords ==
  [isRecord : BOOLEAN,
   sshPort : {Undefined, JsString, JsNumber(2 * SSH_PORT_START), JsNumber(3)},
   forwards : {Undefined, JsNumber(6000), JsArray(<<>>),
               JsArray(<<JsNumber(6000)>>), JsArray(<<JsNumber(3)>>),
               JsArray(<<JsNumber(6000), JsString>>)},
   configDir : {Undefined, JsString, JsNumber(0)},
   selectedKey : {Undefined, JsNull, JsString, JsNumber(0)}]

\* normalizeWorkspaceState(value): the record, or dropped
normalizeWorkspaceState(value) ==
  IF /\ value.isRecord
     /\ value.sshPort.t = "number" /\ value.sshPort.twice % 2 = 0
     /\ value.forwards.t = "array"
     /\ \A i \in DOMAIN value.forwards.items : value.forwards.items[i].t = "number"
     /\ value.configDir.t = "string"
     /\ value.selectedKey.t \in {"undefined", "null", "string"}
  THEN [dropped |-> FALSE,
        record |-> [value EXCEPT !.selectedKey =
                      IF @.t = "undefined" THEN JsNull ELSE @]]
  ELSE [dropped |-> TRUE, record |-> value]

\* normalizeState(raw).workspaces
normalizeState(raw) ==
  LET kept == {n \in DOMAIN raw : ~normalizeWorkspaceState(raw[n]).dropped}
  IN [n \in kept |-> normalizeWorkspaceState(raw[n]).record]

\* loadWorkspaceState(workspaceName) of the query commands: JSON.parse and
\* state.workspaces?.[workspaceName] ?? null
parsedWorkspaceState(raw, name) ==
  IF name \in DOMAIN raw THEN [found |-> TRUE, record |-> raw[name]]
  ELSE [found |-> FALSE, record |-> [r \in {} |-> Nil]]

\* state.json with records of some workspaces
RawFiles == UNION {[D -> RawRecords] : D \in {{}, {"w1"}, {"w2"}}}

NormInit ==
  /\ FreshHost
  /\ call \in [fn : {"loadState", "recordSharedImageBuild"}, raw : RawFiles]
              \cup [fn : {"loadWorkspaceState"}, raw : RawFiles, name : WS]
  /\ ret = NoRet
  /\ box = BoxBoot /\ boot = NoBoot /\ wait = NoWait

\* loadState(): what a command that loads the state observes
CallLoadState ==
  /\ call.fn = "loadState" /\ ret = NoRet
  /\ ret' = [fn |-> call.fn, observed |-> normalizeState(call.raw),
             written |-> EmptyFn]
  /\ UNCHANGED <<call, box, boot, wait, hostVars>>

\* loadWorkspaceState(name): what status, info and proxy observe
CallLoadWorkspaceState ==
  /\ call.fn = "loadWorkspaceState" /\ ret = NoRet
  /\ LET r == parsedWorkspaceState(call.raw, call.name)
     IN ret' = [fn |-> call.fn,
                observed |-> IF r.found THEN [n \in {call.name} |-> r.record]
                             ELSE EmptyFn,
                written |-> EmptyFn]
  /\ UNCHANGED <<call, box, boot, wait, hostVars>>

\* recordSharedImageBuild(): loads the state, sets the time of the build
\* and saves the state, its workspaces as they were loaded
CallRecordBuild ==
  /\ call.fn = "recordSharedImageBuild" /\ ret = NoRet
  /\ ret' = [fn |-> call.fn, observed |-> normalizeState(call.raw),
             written |-> normalizeState(call.raw)]
  /\ UNCHANGED <<call, box, boot, wait, hostVars>>

NormNext == CallLoadState \/ CallLoadWorkspaceState \/ CallRecordBuild

NormSpec == NormInit /\ [][NormNext]_vars

\* The milestones of a start that creates a container, in order.
StartOrder ==
  <<"state", "runtime", "image", "run", "connect", "ready", "buildx", "init">>

\* A step of process p.
StepOf(p) == pc'[p] # pc[p]

\* C1: whatever start, stop and destroy commands ran, concurrently or not,
\* the sshPort values of the workspace records in state.json are pairwise
\* distinct and each is at least 2300.
C1_PortsDistinct ==
  \A a, b \in DOMAIN stateFile.workspaces :
    /\ stateFile.workspaces[a].sshPort >= SSH_PORT_START
    /\ a # b => stateFile.workspaces[a].sshPort # stateFile.workspaces[b].sshPort

\* Both workspaces were started and have their records, and one of them
\* got a port past the one another program listens on.
C1_Witness ==
  /\ DOMAIN stateFile.workspaces = WS
  /\ \A w \in WS : /\ containers[w].status = "running"
                   /\ containers[w].port = stateFile.workspaces[w].sshPort
  /\ \E w \in WS : stateFile.workspaces[w].sshPort > SSH_PORT_START + 1

\* C2: concurrent starts are linearized by the lock: no port allocation is
\* lost (the port ensureWorkspaceState returned for a workspace is the one
\* state.json records for it) and no two workspaces are given the same port.
C2_Linearized ==
  (\A p \in Procs : cmd[p].name \in {"start", Nil}) =>
    /\ \A w \in WS : granted[w] # 0 =>
          /\ w \in DOMAIN stateFile.workspaces
          /\ stateFile.workspaces[w].sshPort = granted[w]
    /\ \A a, b \in WS : (a # b /\ granted[a] # 0) => granted[a] # granted[b]

\* C3: every write of state.json, the creation of the default file
\* included, is a step of the process that holds the lock.
C3_WritesLocked ==
  [][\A p \in Procs : WritesStateFile(p) => lockHolder = p]_vars

\* C4: every read of state.json by a command is a step of the process that
\* holds the lock.
C4_ReadsLocked ==
  [][\A p \in Procs : ReadsStateFile(p) => lockHolder = p]_vars

\* C5, as stated: a start that finds the container running reports "already
\* running", and none of its steps changes a container or state.json.
C5_Original ==
  [][\A p \in Procs :
       (/\ StepOf(p) /\ cmd[p].name = "start"
        /\ \/ pc[p] = "st_exists" /\ Running(cmd[p].ws)
           \/ loc[p].wasRunning)
       => /\ containers' = containers
          /\ stateFile' = stateFile
          /\ pc'[p] = "idle" =>
               outcome'[p] \in {"already_running", "already_running_updated"}]_vars

\* C5, amended: a start without --force-recreate and --rebuild that finds
\* the container running ends at once with "already running" and changes
\* no container, no volume, no image, state.json and the state directory
\* not either.
C5_PlainStartNoop ==
  [][\A p \in Procs :
       (/\ StepOf(p) /\ cmd[p].name = "start" /\ pc[p] = "st_exists"
        /\ ~cmd[p].force /\ ~cmd[p].rebuild /\ Running(cmd[p].ws))
       => /\ pc'[p] = "idle" /\ outcome'[p] = "already_running"
          /\ UNCHANGED <<containers, volumes, stateFile, stateDir, image,
                         buildkit, marker, lockHolder>>]_vars

\* A plain start has reported "already running" for a running container
\* that has its record.
C5_Witness ==
  \E p \in Procs :
    /\ pc[p] = "idle" /\ cmd[p].name = "start" /\ outcome[p] = "already_running"
    /\ Running(cmd[p].ws)
    /\ cmd[p].ws \in DOMAIN stateFile.workspaces

C7_MarkerIffCompleted ==
  [][\A p \in Procs :
       (/\ StepOf(p) /\ pc[p] \in {"in_clone", "in_clone2", "in_boot"}
        /\ p \in containers[cmd[p].ws].execs)
       => /\ (pc[p] = "in_boot" /\ (pc'[p] = "verify" \/ outcome'[p] = "ok"))
               => marker'[cmd[p].ws]
          /\ (pc'[p] = "idle" /\ outcome'[p] = "fail") => ~marker'[cmd[p].ws]]_vars

\* C8: no bootstrap script runs in an init that finds the marker.
C8_BootstrapGated == \A w \in WS : ~rerun[w]

\* C9, as stated: an init that aborts in a bootstrap script fails the start
\* and writes no marker, and a start begun after that runs init again.
C9_Original ==
  [][\A p \in Procs :
       /\ (pc[p] = "in_boot" /\ p \in containers[cmd[p].ws].execs /\ StepOf(p)
            /\ pc'[p] # "verify" /\ outcome'[p] # "ok")
           => pc'[p] = "idle" /\ outcome'[p] = "fail" /\ marker' = marker
       /\ (cmd[p].name = "start" /\ loc[p].retry /\ pc[p] # "idle" /\ pc'[p] = "idle")
           => \/ pc[p] \in {"in_clone", "in_clone2"}
              \/ \E i \in DOMAIN trace[p] : trace[p][i] = "init"]_vars

\* C9, amended: an init that aborts in a bootstrap script fails the start
\* and writes no marker.  A start begun after that reports "already
\* running" while the container of the failed start still runs, unless
\* --force-recreate or --rebuild is given; it succeeds with the project
\* configuration only after it ran init again.
C9_RetryAfterRestart ==
  [][\A p \in Procs :
       /\ (pc[p] = "in_boot" /\ p \in containers[cmd[p].ws].execs /\ StepOf(p)
            /\ pc'[p] # "verify" /\ outcome'[p] # "ok")
           => pc'[p] = "idle" /\ outcome'[p] = "fail" /\ marker' = marker
       /\ (cmd[p].name = "start" /\ loc[p].retry /\ pc[p] = "st_exists"
            /\ StepOf(p) /\ Running(cmd[p].ws) /\ ~cmd[p].force /\ ~cmd[p].rebuild)
           => pc'[p] = "idle" /\ outcome'[p] = "already_running"
       /\ (cmd[p].name = "start" /\ loc[p].retry /\ cmd[p].has
            /\ pc[p] # "idle" /\ pc'[p] = "idle" /\ outcome'[p] = "ok")
           => \E i \in DOMAIN trace[p] : trace[p][i] = "init"]_vars

\* A start begun after an aborted bootstrap recreated the container and is
\* running the bootstrap scripts again, the marker still missing.
C9_Witness ==
  \E p \in Procs :
    /\ pc[p] = "in_boot" /\ loc[p].retry /\ cmd[p].name = "start"
    /\ ~marker[cmd[p].ws] /\ Len(loc[p].scripts) > 0

\* C10: in a start that creates a container the milestones are passed in
\* the order state-store update, runtime JSON write, image check, container
\* run, network connect, readiness wait, buildx configure, init; so the
\* container is not run before its port was recorded, and init does not
\* run before the in-container Docker daemon answered.
C10_StartOrder ==
  \A p \in Procs :
    (/\ cmd[p].name = "start" /\ pc[p] # "idle"
     /\ Len(trace[p]) > 0
     /\ ~loc[p].existed \/ cmd[p].force)
    => /\ Len(trace[p]) <= Len(StartOrder)
       /\ trace[p] = SubSeq(StartOrder, 1, Len(trace[p]))

\* A start created its container and went all the way into init.
C10_Witness ==
  \E p \in Procs : cmd[p].name = "start" /\ ~loc[p].existed /\ trace[p] = StartOrder

\* C11: of two starts for distinct workspaces no one fails inside
\* ensureSharedBuildKit, whatever the other one created meanwhile.
C11_BuildKitRaceBenign ==
  [][\A p \in Procs :
       (/\ StepOf(p) /\ pc[p] \in BkSteps /\ cmd[p].name = "start"
        /\ \A q \in Procs \ {p} : cmd[q].name = "start" /\ cmd[q].ws # cmd[p].ws)
       => pc'[p] # "idle"]_vars

C13_QueriesOnlyLoad ==
  [][\A p \in Procs :
       (/\ StepOf(p) /\ pc[p] # "idle"
        /\ cmd[p].name \in {"status", "info", "proxy", "stop", "list"})
       => stateFile'.workspaces = stateFile.workspaces]_vars

\* C14: once a start with a selected key has written runtime.json, the
\* record of its workspace in state.json has that key as selectedKey.
C14_SelectedKeyStored ==
  \A p \in Procs :
    (/\ cmd[p].name = "start" /\ pc[p] # "idle"
     /\ cmd[p].cfg.key # NoKey
     /\ "runtime" \in {trace[p][i] : i \in DOMAIN trace[p]}
     /\ cmd[p].ws \in DOMAIN stateFile.workspaces)
    => stateFile.workspaces[cmd[p].ws].selectedKey = cmd[p].cfg.key

\* C15: ensureWorkspaceState sets forwards and configDir of the record from
\* the configuration, keeps sshPort and selectedKey of a record there is,
\* allocates a free port for a new one, leaves the other records alone and
\* returns the record it stored.
C15_EnsureRecord ==
  ret.fn = "ensureWorkspaceState" =>
    LET old  == call.st
        n    == call.name
        cfg  == ConfigOf(n)
        rec  == ret.state.workspaces[n]
        used == {old.workspaces[m].sshPort : m \in Names(old)}
    IN /\ Names(ret.state) = Names(old) \cup {n}
       /\ \A m \in Names(old) \ {n} : ret.state.workspaces[m] = old.workspaces[m]
       /\ rec.forwards = cfg.forwards /\ rec.configDir = cfg.dir
       /\ n \in Names(old) => /\ rec.sshPort = old.workspaces[n].sshPort
                              /\ rec.selectedKey = old.workspaces[n].selectedKey
       /\ n \notin Names(old) => /\ rec.sshPort >= SSH_PORT_START
                                 /\ rec.sshPort \notin used \cup call.listening
       /\ ret.value = rec

\* ensureWorkspaceState returned for a workspace whose record had a key
\* selected and other forwards and configDir than the configuration.
C15_Witness ==
  /\ ret.fn = "ensureWorkspaceState"
  /\ call.name \in Names(call.st)
  /\ call.st.workspaces[call.name].selectedKey # NoKey
  /\ call.st.workspaces[call.name].configDir = "dirOld"
  /\ call.st.workspaces[call.name].forwards = <<8080>>
  /\ ret.value.selectedKey # NoKey

\* C16, as stated: findAvailableSshPort returns the smallest port from
\* 2300 on that no record holds and that is not listening on the host; with
\* 2300..2305 allocated and 2306 listening that is 2307.
C16_Original ==
  ret.fn = "findAvailableSshPort" =>
    LET taken == call.allocated \cup call.listening
    IN /\ ret.value >= SSH_PORT_START
       /\ ret.value \notin taken
       /\ \A q \in SSH_PORT_START .. (ret.value - 1) : q \in taken
       /\ (/\ call.allocated = SSH_PORT_START .. (SSH_PORT_START + 5)
           /\ call.listening = {SSH_PORT_START + 6})
          => ret.value = SSH_PORT_START + 7

\* C16, amended: findAvailableSshPort returns the smallest port from 2300
\* on that no record holds and that `ss -tlnH` did not report as listening,
\* no port counting as listening when `ss` cannot be run; with `ss` at
\* work, 2300..2305 allocated and 2306 listening that is 2307.
C16_SmallestFreePort ==
  ret.fn = "findAvailableSshPort" =>
    LET taken == call.allocated \cup (IF call.ss THEN call.listening ELSE {})
    IN /\ ret.value >= SSH_PORT_START
       /\ ret.value \notin taken
       /\ \A q \in SSH_PORT_START .. (ret.value - 1) : q \in taken
       /\ (/\ call.ss
           /\ call.allocated = SSH_PORT_START .. (SSH_PORT_START + 5)
           /\ call.listening = {SSH_PORT_START + 6})
          => ret.value = SSH_PORT_START + 7

\* The call with 2300..2305 allocated and 2306 listening returned 2307.
C16_Witness ==
  /\ ret.fn = "findAvailableSshPort"
  /\ call.ss
  /\ call.allocated = SSH_PORT_START .. (SSH_PORT_START + 5)
  /\ call.listening = {SSH_PORT_START + 6}
  /\ ret.value = SSH_PORT_START + 7

\* C17: a start that has reached the in-container init has rewritten
\* runtime.json before.
C17_RuntimeBeforeInit ==
  \A p \in Procs :
    (cmd[p].name = "start" /\ pc[p] \in {"in_clone", "in_clone2", "in_boot"})
    => "runtime" \in {trace[p][i] : i \in DOMAIN trace[p]}

\* C20: the clone is attempted with the branch flag first unless the clone
\* arguments name a branch, and once more without it only after that
\* failed; when the last attempt fails init ends there: the start fails, no
\* bootstrap script has run, the marker is as it was and the container
\* still runs.
C20_CloneAttempts ==
  [][\A p \in Procs :
       (/\ StepOf(p) /\ pc[p] \in {"in_clone", "in_clone2"}
        /\ p \in containers[cmd[p].ws].execs)
       => /\ (pc[p] = "in_clone" /\ pc'[p] = "in_clone2") => ~loc[p].hasBranchArg
          /\ (pc[p] = "in_clone" /\ pc'[p] = "idle") => loc[p].hasBranchArg
          /\ pc[p] = "in_clone2" => pc'[p] \in {"in_boot", "idle"}
          /\ (pc[p] \in {"in_clone", "in_clone2"} /\ pc'[p] = "idle")
               => /\ outcome'[p] = "fail"
                  /\ marker' = marker /\ rerun' = rerun
                  /\ containers'[cmd[p].ws].status = "running"]_vars

\* The attempt with the branch flag failed in a running container without
\* the marker; the attempt without the flag is next.
C20_Witness ==
  \E p \in Procs :
    /\ pc[p] = "in_clone2" /\ ~loc[p].hasBranchArg
    /\ p \in containers[cmd[p].ws].execs
    /\ Running(cmd[p].ws) /\ ~marker[cmd[p].ws]

ScriptsOf(i) ==
  LET f == boot.fs[boot.entries[i].path]
  IN IF f.kind = "dir"
     THEN {Script(i, f.files[k].name) : k \in {k \in DOMAIN f.files : f.files[k].exec}}
     ELSE {Script(i, <<>>)}

\* s comes before t: an earlier entry, or the same directory and a smaller
\* file name.
ScriptBefore(s, t) ==
  \/ s.entry < t.entry
  \/ s.entry = t.entry /\ codeUnitLess(s.name, t.name)

Started == {boot.started[i] : i \in DOMAIN boot.started}

\* C21: bootstrap scripts run one at a time and in the order runtime.json
\* declares them, the project's entries before the user's; a directory entry
\* runs its executable files in ascending lexical order of their names; and
\* a script is started only after the one before it exited with status 0.
C21_BootstrapOrder ==
  boot.state \in {"stat", "spawn", "running", "done", "failed"} =>
    /\ Len(boot.codes) \in {Len(boot.started) - 1, Len(boot.started)}
    /\ boot.state = "running" <=> Len(boot.codes) = Len(boot.started) - 1
    /\ \A i \in 1..(Len(boot.started) - 1) : boot.codes[i] = 0
    /\ \A i, j \in DOMAIN boot.started :
         i < j => /\ ScriptBefore(boot.started[i], boot.started[j])
                  /\ ~(/\ boot.entries[boot.started[i].entry].source = "user"
                       /\ boot.entries[boot.started[j].entry].source = "project")
    /\ \A t \in Started : \A k \in 1..t.entry : \A s \in ScriptsOf(k) :
         ScriptBefore(s, t) => s \in Started
    /\ boot.state = "done" =>
         \A k \in DOMAIN boot.entries : ScriptsOf(k) \subseteq Started

\* All scripts of a directory that readdir listed in another order, then the
\* user's script, ran.
C21_Witness ==
  /\ boot.state = "done"
  /\ Len(boot.started) = 4
  /\ boot.fs["scripts"].files[1].name = <<50>>
  /\ boot.fs["scripts"].files[2].name = <<49, 48>>
  /\ boot.entries[boot.started[4].entry].source = "user"

\* ensureImage returns to start: the milestone "image" is passed.
ImageStepReturns(p) ==
  /\ cmd[p].name = "start"
  /\ Len(trace'[p]) = Len(trace[p]) + 1
  /\ trace'[p][Len(trace'[p])] = "image"

C23_WaitsBounded ==
  wait.step # "off" =>
    /\ \A i \in DOMAIN wait.took : wait.took[i].ms <= WaitTimeout(wait.took[i].fn)
    /\ wait.step \in {"container", "dockerd"}
         => wait.now - wait.startTime <= WaitTimeout(wait.step)

\* C24: when a mutation of the state store cannot take the lock after its
\* retries, the mutation is not applied, state.json being neither read nor
\* written by it, and the command ends with a fatal error; the function
\* passed to withLock never runs without the lock.
C24_LockFailureFatal ==
  [][\A p \in Procs :
       /\ (pc[p] = "wl_lock" /\ pc'[p] = "wl_body") => lockHolder' = p
       /\ (pc[p] = "wl_lock" /\ pc'[p] \notin {"wl_lock", "wl_body"})
            => /\ lockHolder \notin {NoProc, p}
               /\ stateFile' = stateFile
               /\ pc'[p] = "idle" /\ outcome'[p] = "fail"
       /\ pc[p] = "wl_body" => lockHolder = p
    ]_vars

\* A build could not record itself: the image is built, the command failed
\* and state.json holds no build time.
C24_Witness ==
  \E p \in Procs :
    /\ cmd[p].name = "build" /\ pc[p] = "idle" /\ outcome[p] = "fail"
    /\ image = 1
    /\ stateFile.exists /\ loadState(stateFile).lastBuildAt = NoTime

\* C25: the marker lives in the named home volume and survives the
\* replacement of the container: it goes only when a destroy without
\* --keep-volumes removes the volumes, so after start --force-recreate, or
\* destroy --keep-volumes and start, init finds it and skips the clone.
C25_MarkerSurvives ==
  [][\A w \in WS :
       /\ marker[w] => "home" \in volumes[w]
       /\ (marker[w] /\ ~marker'[w])
            => \E p \in Procs :
                 /\ cmd[p] \in DestroyCmds /\ cmd[p].ws = w /\ ~cmd[p].keep
                 /\ pc[p] = "ds_vols" /\ pc'[p] # pc[p]
                 /\ volumes'[w] = {}
       /\ \A p \in Procs :
            (/\ cmd[p].name = "start" /\ cmd[p].ws = w
             /\ pc[p] = "in_clone" /\ pc'[p] # pc[p] /\ marker[w])
              => \/ pc'[p] = "in_boot" /\ ~loc'[p].cloned
                 \/ pc'[p] = "idle" /\ p \notin containers[w].execs
    ]_vars

\* start --force-recreate replaced the container of a workspace with a
\* remote whose marker was written before, and its init went past the clone
\* without cloning.
C25_Witness ==
  \E p \in Procs :
    /\ cmd[p].name = "start" /\ cmd[p].force /\ loc[p].existed
    /\ containers[cmd[p].ws].remote
    /\ pc[p] = "in_boot" /\ ~loc[p].cloned
    /\ marker[cmd[p].ws]

\* C26: every `docker run` that start assembles passes HOST_UID and HOST_GID,
\* the ids of the invoking user, so that the workspace user of the container
\* has the UID and the GID of the host user.
C26_HostIdsPassed ==
  \A w \in WS :
    Exists(w) => /\ {"HOST_UID", "HOST_GID"} \subseteq containers[w].env
                 /\ syncUserWithHost(containers[w].env) = "host"

\* How often line occurs in lines.
Occurrences(lines, line) == Cardinality({i \in DOMAIN lines : lines[i] = line})

\* C27: after the SSH key installation, whatever authorized_keys held before
\* and however often the entrypoint ran, authorized_keys holds
\* $SSH_PUBLIC_KEY exactly once and its lines are sorted and without
\* duplicates.
C27_AuthorizedKeys ==
  (call.fn = "addSshKeys" /\ ret # NoRet) =>
    LET lines == ret.file.lines
    IN /\ call.publicKey # <<>> => Occurrences(lines, call.publicKey) = 1
       /\ \A i, j \in DOMAIN lines : i < j => codeUnitLess(lines[i], lines[j])

\* The pattern, read as a wildcard pattern, covers the whole url: "*" stands
\* for any string, every other character for itself.
RECURSIVE Covers(_, _)
Covers(pattern, url) ==
  IF pattern = <<>> THEN url = <<>>
  ELSE IF Head(pattern) = 42
  THEN Covers(Tail(pattern), url) \/ (url # <<>> /\ Covers(pattern, Tail(url)))
  ELSE url # <<>> /\ Head(url) = Head(pattern) /\ Covers(Tail(pattern), Tail(url))

IsDigits(str) == str # <<>> /\ \A i \in DOMAIN str : str[i] \in 48..57

\* "A-B": digits, one "-", digits.
IsRange(str) ==
  /\ Cardinality({i \in DOMAIN str : str[i] = 45}) = 1
  /\ IsDigits(splitAt(str, 45)[1]) /\ IsDigits(splitAt(str, 45)[2])

\* The ports the range string stands for: A to B when it is "A-B" with
\* A <= B, none when it is malformed or inverted.
RangePorts(str) ==
  LET a == decimal(splitAt(str, 45)[1])
      b == decimal(splitAt(str, 45)[2])
  IN IF IsRange(str) /\ a <= b THEN [i \in 1..(b - a + 1) |-> NumberOf(a + i - 1)]
     ELSE <<>>

RECURSIVE AllRangePorts(_)
AllRangePorts(forwards) ==
  IF forwards = <<>> THEN <<>>
  ELSE RangePorts(Head(forwards).str) \o AllRangePorts(Tail(forwards))

\* C29: in the normalization of forwards every range string "A-B" with
\* A <= B expands to exactly B-A+1 ports, A to B in ascending order, at the
\* place of the entry in the list, and a malformed or inverted range string
\* gives no ports.  Stated for lists of strings that hold a "-", ranges
\* that start at 0 left aside.
C29_RangesExpand ==
  (/\ call.fn = "resolveConfig" /\ ret # NoRet
   /\ \A i \in DOMAIN call.forwards :
        /\ call.forwards[i].type = "string"
        /\ \E k \in DOMAIN call.forwards[i].str : call.forwards[i].str[k] = 45
        /\ ~(IsRange(call.forwards[i].str)
             /\ decimal(splitAt(call.forwards[i].str, 45)[1]) = 0))
    => ret.value = [thrown |-> FALSE, ports |-> AllRangePorts(call.forwards)]

\* C30: whatever the entries of forwards are, integers, other numbers,
\* strings, objects with `internal` or anything else, the normalized list
\* holds positive integers only; the entries 0 and -1 are rejected.
C30_PositiveIntegers ==
  (call.fn = "resolveConfig" /\ ret # NoRet /\ ~ret.value.thrown) =>
    \A i \in DOMAIN ret.value.ports :
      /\ ret.value.ports[i].kind = "number"
      /\ ret.value.ports[i].twice > 0
      /\ ret.value.ports[i].twice % 2 = 0

\* A record as the state store means it: an integer sshPort, forwards an
\* array of integers, configDir a string.
WellFormed(record) ==
  /\ record.isRecord
  /\ record.sshPort.t = "number" /\ record.sshPort.twice % 2 = 0
  /\ record.forwards.t = "array"
  /\ \A i \in DOMAIN record.forwards.items :
       /\ record.forwards.items[i].t = "number"
       /\ record.forwards.items[i].twice % 2 = 0
  /\ record.configDir.t = "string"

\* C31: the state is normalized on every load: a record without an integer
\* sshPort, an array of integers as forwards or a string configDir is
\* dropped, so every record a command observes or writes back is
\* well-formed.
C31_RecordsWellFormed ==
  (call.fn \in {"loadState", "loadWorkspaceState", "recordSharedImageBuild"}
   /\ ret # NoRet) =>
    /\ \A n \in DOMAIN ret.observed : WellFormed(ret.observed[n])
    /\ \A n \in DOMAIN ret.written : WellFormed(ret.written[n])

\* C32: the steps of the entrypoint run in order (user sync, SSH keys,
\* dockerd, sshd, the supervisor) and the user sync is not fatal: when the
\* synchronization of the UID and GID fails the entrypoint does not stop
\* there, the SSH keys are installed and dockerd is started all the same.
C32_SyncNonFatal ==
  /\ box.sync = "failed" => ~(box.ep = "exited" /\ box.keys = "pending")
  /\ box.keys # "pending" => box.sync # "pending"
  /\ box.dockerd # "down" => box.keys # "pending"
  /\ box.sshd # "down" => box.ready
  /\ box.mon # "off" => box.ep = "serving"

\* C33: whenever a workspace has both a container and a record in
\* state.json, the sshPort of the record is the host port the container
\* publishes for SSH (the -p <sshPort>:22 it was created with), whatever
\* the commands run, the ones that fail part-way included.
C33_RecordMatchesContainer ==
  \A w \in WS :
    (Exists(w) /\ w \in Names(loadState(stateFile))) =>
      stateFile.workspaces[w].sshPort = containers[w].port

\* C34: at no time do two workspace containers exist, running or stopped,
\* that were created with the same host port for SSH; a port is never
\* given to a new workspace while a container created with it exists.
C34_ContainerPortsDistinct ==
  \A w \in WS, x \in WS :
    (w # x /\ Exists(w) /\ Exists(x)) => containers[w].port # containers[x].port

\* C35: the sshPort of a workspace never changes between the operation
\* that first allocates it and the destroy of the workspace: every
\* ensureWorkspaceState in between returns the port the one before it
\* returned, whatever start, stop, start --force-recreate, status, info
\* and proxy ran, the starts that fail after the state update included.
C35_PortStable ==
  [][\A w \in WS :
       (granted[w] # 0 /\ granted'[w] # 0) => granted'[w] = granted[w]]_vars

\* C36: the loop of the supervisor runs for as long as the entrypoint
\* process is alive: no failure of a probe or of a restart ends the loop,
\* so once started the supervision never stops while the entrypoint lives.
C36_SupervisorAlive ==
  box.ep = "serving" => box.mon \in {"sleep", "settle", "sshd"}

\* C37: when start --rebuild (or --no-cache) ends with success on a
\* workspace whose container existed already, the container of the
\* workspace is one created from the image that command built.
C37_RebuildUsesNewImage ==
  [][\A p \in Procs :
       (/\ pc[p] # "idle" /\ pc'[p] = "idle"
        /\ cmd[p].name = "start" /\ cmd[p].rebuild /\ loc[p].existed
        /\ outcome'[p] \in {"ok", "already_running_updated"})
       => /\ containers'[cmd[p].ws].status # "none"
          /\ containers'[cmd[p].ws].image = loc[p].built]_vars

====
